---------------------------- MODULE Spec2Model ----------------------------
(***************************************************************************)
(* Model of the file-backed record store of viabilidade-alares             *)
(* (backend server, src/unnamed/part_001 and src/backend/server.js):       *)
(*   - the named-lock registry fileLocks / withLock,                       *)
(*   - the VI ALA ticket ledger (getNextVIALAFromExcel, saveVIALARecord-   *)
(*     ToExcel, _ensureVIALABaseInternal, _readVIALABaseInternal and the   *)
(*     routes that call them),                                             *)
(*   - the rotation of the CTO base files done by POST /api/upload-base.   *)
(*                                                                         *)
(* Execution model: Node's single thread.  A handler runs without          *)
(* interruption up to its next await.  A continuation whose promise is     *)
(* settled sits in the microtask queue mq; the queue drains, in order,     *)
(* before any new request or file-system completion (a macrotask) runs.    *)
(* A file-system call of the ledger code is two steps: the call itself    *)
(* acts on the disk at some moment after it was issued, and the awaiting   *)
(* code resumes later.  In the upload task one step is one awaited call:   *)
(* its effect on the disk and the code that runs up to the next await.     *)
(***************************************************************************)
EXTENDS Bags, FiniteSets, Integers, Sequences, TLC

\* ------------------------------------------------------------------ bounds
NProcs == 3          \* concurrent requests modelled
MaxTicks == 2        \* how many times the clock advances
TickMs == 2600       \* one advance of Date.now(), in ms
MaxLedgerLen == 3    \* rows in the ledger when the server starts
MaxUploads == 3      \* uploads of the CTO base modelled
MaxDay == 1          \* how many times the calendar day changes
MaxFaults == 2       \* file-system calls that fail although their file exists

\* ------------------------------------------------------- program constants
MAX_WAIT_TIME == 5000
BackupsKept == 3     \* `allBackupFiles.length > 3`, `slice(3)`

Procs == 1..NProcs
Keys == {"projetistas", "tabulacoes", "vi_ala"}
NoLock == 0          \* fileLocks[k] = null
NoFile == [exists |-> FALSE, rows |-> <<>>]    \* the file does not exist
File(rows) == [exists |-> TRUE, rows |-> rows]  \* a workbook holding these rows
NoId == <<>>         \* no ticket ID held

VARIABLES
    now,          \* Date.now()
    fileLocks,    \* fileLocks[k]: NoLock, or the request whose pending promise is stored
    waiters,      \* waiters[k]: requests suspended in `await fileLocks[k]`, in await order
    mq,           \* microtask queue: requests whose continuation is ready to run
    pc,           \* pc[p]: where request p is
    lockName,     \* lockName[p]: the key p called withLock with
    startTime,    \* startTime[p]: Date.now() at p's call of withLock
    opOutcome,    \* opOutcome[p]: how p's operation settled ("none", "ok", "throw")
    result,       \* result[p]: what p's withLock call gave its caller
    kind,         \* kind[p]: the handler request p runs
    at,           \* at[p]: the await the handler's file code is suspended at
    sawExists,    \* sawExists[p]: what p's fsPromises.access found
    data,         \* data[p]: the rows p read from base_VI ALA.xlsx
    viAla,        \* viAla[p]: the ticket ID p's client was given
    ledger,       \* base_VI ALA.xlsx: NoFile, or File(its rows)
    committed,    \* rows whose save completed, in order (history)
    today,        \* the calendar day of new Date(), counted from the server's start
    clock,        \* the modification time the file system stamps next
    dir,          \* DATA_DIR: file name -> [mtime, content]
    faultsLeft,   \* file-system failures still to come
    unlinkFailed, \* some unlink of an existing file has failed (history)
    upload,       \* upload[u]: the locals of upload request u's background task
    projetistas,    \* projetistas.xlsx: NoFile, or File(its rows of [nome, senha])
    tabulacoes,     \* tabulacoes.xlsx: NoFile, or File(its tag names)
    activeSessions, \* activeSessions[usuario] = [lastActivity, loginTime]
    logoutHistory,  \* logoutHistory[usuario] = [logoutTime]
    served,         \* the last request handled (or timer run) and its response
    inflight        \* the bag of saves that requests are suspended in

gateVars == <<now, fileLocks, waiters, mq, pc, lockName, startTime, opOutcome, result>>
lockState == <<now, fileLocks, waiters, mq, lockName, startTime, opOutcome, result>>
ledgerVars == <<kind, at, sawExists, data, viAla, ledger, committed>>
requestVars == <<now, fileLocks, waiters, mq, pc, lockName, startTime, opOutcome, result,
                 kind, at, sawExists, data, viAla, ledger, committed>>
uploadVars == <<today, clock, dir, faultsLeft, unlinkFailed, upload>>
storeVars == <<projetistas, tabulacoes, activeSessions, logoutHistory, served, inflight>>
\* every request variable but the clock
behindClock == <<fileLocks, waiters, mq, pc, lockName, startTime, opOutcome, result,
                 kind, at, sawExists, data, viAla, ledger, committed>>
vars == <<requestVars, uploadVars, storeVars>>

\* ------------------------------------------------------------ withLock
\* `Date.now() - startTime > MAX_WAIT_TIME`
TimedOut(start, t) == t - start > MAX_WAIT_TIME

\* the loop condition `while (fileLocks[lockName])`
LockHeld(locks, k) == locks[k] # NoLock

\* a withLock that takes the key without recording it
StorePromiseOmitted(locks, k, p) == locks

\* `fileLocks[lockName] = new Promise(...)`
StorePromise(locks, k, p) == [locks EXCEPT ![k] = p]

\* a release that is skipped (no finally block)
ClearLockOmitted(locks, k) == locks

\* finally: `fileLocks[lockName] = null`
ClearLock(locks, k) == [locks EXCEPT ![k] = NoLock]

\* a release that wakes the first waiter only
ResolveLockFirstOnly(queue, ws, k) ==
    IF ws[k] = <<>> THEN queue ELSE Append(queue, Head(ws[k]))

\* finally: `resolveLock()` queues the reactions of the promise, in await order
ResolveLock(queue, ws, k) == queue \o ws[k]

\* One pass of p through the head of withLock, from the loop test to the first
\* suspension: timeout, `await fileLocks[lockName]`, or the lock taken and the
\* operation started.  `queue` is the microtask queue p leaves behind.
EnterLoop(p, k, start, queue) ==
    IF LockHeld(fileLocks, k)
    THEN IF TimedOut(start, now)
         THEN /\ pc' = [pc EXCEPT ![p] = "done"]
              /\ result' = [result EXCEPT ![p] = "timeout"]
              /\ mq' = queue
              /\ UNCHANGED <<fileLocks, waiters>>
         ELSE /\ pc' = [pc EXCEPT ![p] = "awaitLock"]
              /\ waiters' = [waiters EXCEPT ![k] = Append(@, p)]
              /\ mq' = queue
              /\ UNCHANGED <<fileLocks, result>>
    ELSE /\ fileLocks' = StorePromise(fileLocks, k, p)
         /\ pc' = [pc EXCEPT ![p] = "op"]
         /\ mq' = queue
         /\ UNCHANGED <<waiters, result>>

\* The locals of a withLock call that has returned or thrown are gone.
DropLocals(p) ==
    /\ startTime' = [startTime EXCEPT ![p] = 0]
    /\ opOutcome' = [opOutcome EXCEPT ![p] = "none"]
    /\ at' = [at EXCEPT ![p] = "-"]
    /\ sawExists' = [sawExists EXCEPT ![p] = FALSE]
    /\ data' = [data EXCEPT ![p] = <<>>]

\* Requests are numbered in the order they arrive.
NextToArrive(p) == pc[p] = "idle" /\ \A q \in Procs : q < p => pc[q] # "idle"

\* p calls withLock(k, operation); `first` is where the operation begins.
WithLock(p, k, first) ==
    /\ lockName' = [lockName EXCEPT ![p] = k]
    /\ startTime' = [startTime EXCEPT ![p] = now]
    /\ at' = [at EXCEPT ![p] = first]
    /\ EnterLoop(p, k, now, mq)
    /\ UNCHANGED <<now, opOutcome>>

\* A request calls withLock(k, operation) with some operation.
Call(p, k) ==
    /\ NextToArrive(p)
    /\ mq = <<>>
    /\ kind' = [kind EXCEPT ![p] = "generic"]
    /\ WithLock(p, k, "run")
    /\ UNCHANGED <<sawExists, data, viAla, ledger, committed>>
    /\ UNCHANGED uploadVars
    /\ UNCHANGED storeVars

\* The promise p awaited was resolved: p resumes at the loop test.
Wake(p) ==
    /\ mq # <<>>
    /\ Head(mq) = p
    /\ pc[p] = "awaitLock"
    /\ EnterLoop(p, lockName[p], startTime[p], Tail(mq))
    /\ IF pc'[p] = "done"
       THEN DropLocals(p)
       ELSE UNCHANGED <<startTime, opOutcome, at, sawExists, data>>
    /\ UNCHANGED <<now, lockName, kind, viAla, ledger, committed>>
    /\ UNCHANGED uploadVars
    /\ UNCHANGED storeVars

\* The operation's promise settles (it returned, or it threw).
OpSettle(p, o) ==
    /\ pc[p] = "op"
    /\ kind[p] = "generic"
    /\ pc' = [pc EXCEPT ![p] = "settled"]
    /\ opOutcome' = [opOutcome EXCEPT ![p] = o]
    /\ mq' = Append(mq, p)
    /\ UNCHANGED <<now, fileLocks, waiters, lockName, startTime, result>>
    /\ UNCHANGED ledgerVars
    /\ UNCHANGED uploadVars
    /\ UNCHANGED storeVars

\* try/catch/finally after `await operation()`: rethrow or return, and release.
Finally(p) ==
    /\ mq # <<>>
    /\ Head(mq) = p
    /\ pc[p] = "settled"
    /\ fileLocks' = ClearLock(fileLocks, lockName[p])
    /\ mq' = ResolveLock(Tail(mq), waiters, lockName[p])
    /\ waiters' = [waiters EXCEPT ![lockName[p]] = <<>>]
    /\ pc' = [pc EXCEPT ![p] = "done"]
    /\ result' = [result EXCEPT ![p] = IF opOutcome[p] = "throw" THEN "error" ELSE "ok"]
    /\ DropLocals(p)
    /\ UNCHANGED <<now, lockName, kind, viAla, ledger, committed>>
    /\ UNCHANGED uploadVars
    /\ UNCHANGED storeVars

\* Date.now() advances.
Tick ==
    /\ now < MaxTicks * TickMs
    /\ now' = now + TickMs
    /\ UNCHANGED <<fileLocks, waiters, mq, pc, lockName, startTime, opOutcome, result>>
    /\ UNCHANGED ledgerVars
    /\ UNCHANGED uploadVars
    /\ UNCHANGED storeVars

\* ------------------------------------------------------------ ticket IDs
\* A JavaScript string is the sequence of its characters.  A cell of the
\* 'VI ALA' column is a string [t |-> "s", v |-> chars] or a number
\* [t |-> "n", v |-> its digits]; a missing cell reads as undefined and `|| ''` makes it
\* the empty string.
DigitChars == <<"0", "1", "2", "3", "4", "5", "6", "7", "8", "9">>
DigitSet == {DigitChars[i] : i \in 1..10}
Whitespace == {" ", "\t"}
DigitValue(c) == (CHOOSE i \in 1..10 : DigitChars[i] = c) - 1
StrCell(chars) == [t |-> "s", v |-> chars]
NumCell(digits) == [t |-> "n", v |-> digits]

\* String(n) for an integer n >= 0
RECURSIVE NumberString(_)
NumberString(n) ==
    IF n < 10 THEN <<DigitChars[n + 1]>>
    ELSE NumberString(n \div 10) \o <<DigitChars[(n % 10) + 1]>>

\* str.padStart(len, c)
RECURSIVE PadStart(_, _, _)
PadStart(str, len, c) ==
    IF Len(str) >= len THEN str ELSE PadStart(<<c>> \o str, len, c)

\* parseInt(digits, 10) on a run of decimal digits
RECURSIVE ParseDigits(_, _)
ParseDigits(str, acc) ==
    IF str = <<>> THEN acc
    ELSE ParseDigits(Tail(str), acc * 10 + DigitValue(Head(str)))

ParseInt(str) == ParseDigits(str, 0)

\* str.trim()
RECURSIVE TrimStart(_)
TrimStart(str) ==
    IF str # <<>> /\ Head(str) \in Whitespace THEN TrimStart(Tail(str)) ELSE str

RECURSIVE TrimEnd(_)
TrimEnd(str) ==
    IF str # <<>> /\ str[Len(str)] \in Whitespace
    THEN TrimEnd(SubSeq(str, 1, Len(str) - 1))
    ELSE str

Trim(str) == TrimEnd(TrimStart(str))

\* first index >= i of str whose character is not in class (Len(str)+1 if none)
RECURSIVE Skip(_, _, _)
Skip(str, i, class) ==
    IF i <= Len(str) /\ str[i] \in class THEN Skip(str, i + 1, class) ELSE i

\* the character at i is letter `upper`, in either case (flag i)
IsLetter(str, i, upper, lower) == i <= Len(str) /\ str[i] \in {upper, lower}

\* /VI\s*ALA[-\s]*(\d+)/i tried at index i: the digits of group 1, <<>> if no match.
\* The classes \s, [-\s] and \d do not overlap what follows them, so the greedy
\* match needs no backtracking.
MatchAt(str, i) ==
    IF ~(IsLetter(str, i, "V", "v") /\ IsLetter(str, i + 1, "I", "i")) THEN <<>>
    ELSE LET j == Skip(str, i + 2, Whitespace)
         IN  IF ~(IsLetter(str, j, "A", "a") /\ IsLetter(str, j + 1, "L", "l")
                    /\ IsLetter(str, j + 2, "A", "a"))
             THEN <<>>
             ELSE LET k == Skip(str, j + 3, Whitespace \cup {"-"})
                      e == Skip(str, k, DigitSet)
                  IN  SubSeq(str, k, e - 1)

\* the regular expression tried at i, i+1, ...: group 1 of the leftmost match
RECURSIVE MatchFrom(_, _)
MatchFrom(str, i) ==
    IF i > Len(str) THEN <<>>
    ELSE IF MatchAt(str, i) # <<>> THEN MatchAt(str, i)
    ELSE MatchFrom(str, i + 1)

\* viAla.match(/VI\s*ALA[-\s]*(\d+)/i): group 1 of the match, <<>> for null
MatchVIALA(str) == MatchFrom(str, 1)

\* a scan that keeps the last number seen instead of the largest
KeepLast(number, maxNumber) == number

\* `if (!isNaN(number) && number > maxNumber) maxNumber = number`
KeepMax(number, maxNumber) == IF number > maxNumber THEN number ELSE maxNumber

\* the body of `for (const row of data)`: maxNumber after looking at row
ScanRow(row, maxNumber) ==
    LET cell == row.id
        viAlaStr == IF cell.t = "s" THEN cell.v ELSE <<>>
    IN  IF cell.t = "s" /\ viAlaStr # <<>> /\ MatchVIALA(viAlaStr) # <<>>
        THEN KeepMax(ParseInt(MatchVIALA(viAlaStr)), maxNumber)
        ELSE maxNumber

RECURSIVE ScanRows(_, _)
ScanRows(rows, maxNumber) ==
    IF rows = <<>> THEN maxNumber
    ELSE ScanRows(Tail(rows), ScanRow(Head(rows), maxNumber))

VIALAPrefix == <<"V", "I", " ", "A", "L", "A", "-">>

\* an allocator that returns the highest number again
NextNumberSame(maxNumber) == maxNumber

\* `const nextNumber = maxNumber + 1`
NextNumber(maxNumber) == maxNumber + 1

\* `VI ALA-${String(nextNumber).padStart(7, '0')}`
FormatVIALA(nextNumber) == VIALAPrefix \o PadStart(NumberString(nextNumber), 7, "0")

\* what getNextVIALAFromExcel returns for the rows it read
NextVIALA(rows) == FormatVIALA(NextNumber(ScanRows(rows, 0)))

\* --------------------------------------------------------- ticket ledger
\* XLSX.writeFile(workbook, BASE_VI_ALA_FILE) of a sheet holding the header row only
HeaderOnly == File(<<>>)

\* the catch branch of `await fsPromises.access(...)`: the file was reported
\* missing, so a header-only workbook is written over whatever is there now
CreateIfMissing(file, exists) == IF exists THEN file ELSE HeaderOnly

\* the row POST /api/vi-ala/save builds from the request body
Record(p, id) == [id |-> StrCell(Trim(id)), by |-> p]

\* p's handler is running file code, inside an operation of withLock or outside
Running(p) == pc[p] \in {"op", "run"}

\* ---- GET /api/vi-ala/next -> getNextVIALA -> getNextVIALAFromExcel
StartNext(p) ==
    /\ NextToArrive(p)
    /\ mq = <<>>
    /\ kind' = [kind EXCEPT ![p] = "next"]
    /\ pc' = [pc EXCEPT ![p] = "run"]
    /\ at' = [at EXCEPT ![p] = "nextAccess"]
    /\ UNCHANGED <<sawExists, data, viAla, ledger, committed>>
    /\ UNCHANGED lockState
    /\ UNCHANGED uploadVars
    /\ UNCHANGED storeVars

\* fsPromises.access(BASE_VI_ALA_FILE) looks at the disk
NextAccess(p) ==
    /\ pc[p] = "run"
    /\ at[p] = "nextAccess"
    /\ sawExists' = [sawExists EXCEPT ![p] = ledger.exists]
    /\ at' = [at EXCEPT ![p] = "nextAccessed"]
    /\ UNCHANGED <<pc, kind, data, viAla, ledger, committed>>
    /\ UNCHANGED lockState
    /\ UNCHANGED uploadVars
    /\ UNCHANGED storeVars

\* the handler resumes: creates the file if access failed, then issues readFile
NextAfterAccess(p) ==
    /\ pc[p] = "run"
    /\ at[p] = "nextAccessed"
    /\ mq = <<>>
    /\ ledger' = CreateIfMissing(ledger, sawExists[p])
    /\ at' = [at EXCEPT ![p] = "nextRead"]
    /\ UNCHANGED <<pc, kind, sawExists, data, viAla, committed>>
    /\ UNCHANGED lockState
    /\ UNCHANGED uploadVars
    /\ UNCHANGED storeVars

\* readFile reads the rows; the handler scans them and answers with the next ID
NextRead(p) ==
    /\ pc[p] = "run"
    /\ at[p] = "nextRead"
    /\ mq = <<>>
    /\ IF ~ledger.exists
       THEN /\ pc' = [pc EXCEPT ![p] = "done"]
            /\ result' = [result EXCEPT ![p] = "error"]
            /\ UNCHANGED viAla
       ELSE /\ pc' = [pc EXCEPT ![p] = "gotId"]
            /\ viAla' = [viAla EXCEPT ![p] = NextVIALA(ledger.rows)]
            /\ UNCHANGED result
    /\ at' = [at EXCEPT ![p] = "-"]
    /\ sawExists' = [sawExists EXCEPT ![p] = FALSE]
    /\ UNCHANGED <<kind, data, ledger, committed>>
    /\ UNCHANGED <<now, fileLocks, waiters, mq, lockName, startTime, opOutcome>>
    /\ UNCHANGED uploadVars
    /\ UNCHANGED storeVars

\* ---- POST /api/vi-ala/save -> saveVIALARecord -> saveVIALARecordToExcel
\* The client posts the ID it was given; the route rejects an empty one.
SaveCall(p) ==
    /\ pc[p] = "gotId"
    /\ mq = <<>>
    /\ Trim(viAla[p]) # <<>>
    /\ kind' = [kind EXCEPT ![p] = "save"]
    /\ WithLock(p, "vi_ala", "access")
    /\ UNCHANGED <<sawExists, data, viAla, ledger, committed>>
    /\ UNCHANGED uploadVars
    /\ UNCHANGED storeVars

\* ---- GET /api/vi-ala/ensure-base -> ensureVIALABase
EnsureCall(p) ==
    /\ NextToArrive(p)
    /\ mq = <<>>
    /\ kind' = [kind EXCEPT ![p] = "ensure"]
    /\ WithLock(p, "vi_ala", "access")
    /\ UNCHANGED <<sawExists, data, viAla, ledger, committed>>
    /\ UNCHANGED uploadVars
    /\ UNCHANGED storeVars

\* ---- GET /api/vi-ala/list: the same two helpers, called without the lock
ListStart(p) ==
    /\ NextToArrive(p)
    /\ mq = <<>>
    /\ kind' = [kind EXCEPT ![p] = "list"]
    /\ pc' = [pc EXCEPT ![p] = "run"]
    /\ at' = [at EXCEPT ![p] = "access"]
    /\ UNCHANGED <<sawExists, data, viAla, ledger, committed>>
    /\ UNCHANGED lockState
    /\ UNCHANGED uploadVars
    /\ UNCHANGED storeVars

\* ---- _ensureVIALABaseInternal: fsPromises.access looks at the disk
EnsureAccess(p) ==
    /\ Running(p)
    /\ at[p] \in {"access", "accessAgain"}
    /\ sawExists' = [sawExists EXCEPT ![p] = ledger.exists]
    /\ at' = [at EXCEPT ![p] = IF at[p] = "access" THEN "accessed" ELSE "accessedAgain"]
    /\ UNCHANGED <<pc, kind, data, viAla, ledger, committed>>
    /\ UNCHANGED lockState
    /\ UNCHANGED uploadVars
    /\ UNCHANGED storeVars

\* ---- _ensureVIALABaseInternal resumes and returns; its caller goes on:
\* ensureVIALABase returns; save and list call _readVIALABaseInternal, which tests
\* fs.existsSync and issues readFile, or (file missing) ensures again and gives [].
EnsureAfterAccess(p) ==
    /\ Running(p)
    /\ at[p] \in {"accessed", "accessedAgain"}
    /\ mq = <<>>
    /\ ledger' = CreateIfMissing(ledger, sawExists[p])
    /\ IF kind[p] = "ensure"
       THEN /\ pc' = [pc EXCEPT ![p] = "settled"]
            /\ opOutcome' = [opOutcome EXCEPT ![p] = "ok"]
            /\ mq' = Append(mq, p)
            /\ UNCHANGED <<at, data>>
       ELSE /\ IF at[p] = "accessedAgain"
               THEN /\ at' = [at EXCEPT ![p] = "readDone"]
                    /\ data' = [data EXCEPT ![p] = <<>>]
               ELSE /\ at' = [at EXCEPT ![p] =
                                 IF ledger'.exists THEN "read" ELSE "accessAgain"]
                    /\ UNCHANGED data
            /\ UNCHANGED <<pc, opOutcome, mq>>
    /\ UNCHANGED <<kind, sawExists, viAla, committed>>
    /\ UNCHANGED <<now, fileLocks, waiters, lockName, startTime, result>>
    /\ UNCHANGED uploadVars
    /\ UNCHANGED storeVars

\* ---- _readVIALABaseInternal: fsPromises.readFile reads the rows
ReadFile(p) ==
    /\ Running(p)
    /\ at[p] = "read"
    /\ ledger.exists
    /\ data' = [data EXCEPT ![p] = ledger.rows]
    /\ at' = [at EXCEPT ![p] = "readDone"]
    /\ UNCHANGED <<pc, kind, sawExists, viAla, ledger, committed>>
    /\ UNCHANGED lockState
    /\ UNCHANGED uploadVars
    /\ UNCHANGED storeVars

\* ---- save resumes with the rows: data.push(record), XLSX.writeFile, return true
SaveWrite(p) ==
    /\ pc[p] = "op"
    /\ kind[p] = "save"
    /\ at[p] = "readDone"
    /\ mq = <<>>
    /\ ledger' = File(Append(data[p], Record(p, viAla[p])))
    /\ committed' = Append(committed, Record(p, viAla[p]))
    /\ pc' = [pc EXCEPT ![p] = "settled"]
    /\ opOutcome' = [opOutcome EXCEPT ![p] = "ok"]
    /\ mq' = Append(mq, p)
    /\ UNCHANGED <<kind, at, sawExists, data, viAla>>
    /\ UNCHANGED <<now, fileLocks, waiters, lockName, startTime, result>>
    /\ UNCHANGED uploadVars
    /\ UNCHANGED storeVars

\* ---- list resumes with the rows and answers
ListDone(p) ==
    /\ pc[p] = "run"
    /\ kind[p] = "list"
    /\ at[p] = "readDone"
    /\ mq = <<>>
    /\ pc' = [pc EXCEPT ![p] = "done"]
    /\ result' = [result EXCEPT ![p] = "ok"]
    /\ at' = [at EXCEPT ![p] = "-"]
    /\ sawExists' = [sawExists EXCEPT ![p] = FALSE]
    /\ data' = [data EXCEPT ![p] = <<>>]
    /\ UNCHANGED <<kind, viAla, ledger, committed>>
    /\ UNCHANGED <<now, fileLocks, waiters, mq, lockName, startTime, opOutcome>>
    /\ UNCHANGED uploadVars
    /\ UNCHANGED storeVars

\* ------------------------------------------------------------ CTO base files
\* File names are the pieces their template strings are built from: a prefix,
\* the characters of the date and the extension.
Uploads == 1..MaxUploads
NoPath == <<>>       \* null
EmptyDir == <<>>     \* a data directory without files
NoTemp == [exists |-> FALSE, mtime |-> 0, content |-> 0]
\* hadCurrent, prior and backedUp are history: whether a current base existed when
\* the rotation started, its content, and whether the rename or the copy to the
\* backup name succeeded
\* no response sent yet / the response sent as soon as the file is stored
NoResponse == [status |-> 0, success |-> FALSE, processing |-> FALSE]
UploadReceived == [status |-> 200, success |-> TRUE, processing |-> TRUE]

Idle == [pc |-> "idle", temp |-> NoTemp, dateStr |-> <<>>, allFiles |-> <<>>,
         baseAtualFiles |-> <<>>, currentBasePath |-> NoPath, pending |-> <<>>,
         outcome |-> "none", hadCurrent |-> FALSE, prior |-> 0, backedUp |-> FALSE,
         latLong |-> FALSE, res |-> NoResponse]

\* new Date() on day i, counted from the server's start on 30 November 2026
\* (i < 0: days of an earlier run)
DateOf(i) ==
    IF i <= 0 THEN [date |-> 30 + i, month |-> 10, fullYear |-> 2026]
              ELSE [date |-> i, month |-> 11, fullYear |-> 2026]

formatDateForFilename(date) ==
    PadStart(NumberString(date.date), 2, "0") \o <<"-">>
        \o PadStart(NumberString(date.month + 1), 2, "0") \o <<"-">>
        \o NumberString(date.fullYear)

BASE_CTOS_FILE == <<"base", ".xlsx">>
BaseAtualName(dateStr) == <<"base_atual_">> \o dateStr \o <<".xlsx">>
BackupName(dateStr) == <<"backup_">> \o dateStr \o <<".xlsx">>

StartsWith(file, prefix) == Len(file) > 0 /\ file[1] = prefix
EndsWith(file, suffix) == Len(file) > 0 /\ file[Len(file)] = suffix

\* a filter that keeps every workbook of the directory
IsWorkbook(file) == EndsWith(file, ".xlsx")

\* the filter of findCurrentBaseFile
IsBaseAtual(file) ==
    StartsWith(file, "base_atual_") /\ EndsWith(file, ".xlsx") /\ ~StartsWith(file, "backup_")
\* the filter of the upload's allBaseAtualFiles
IsOldBase(file) == StartsWith(file, "base_atual_") /\ EndsWith(file, ".xlsx")
\* the filter of the upload's allBackupFiles
IsBackup(file) == StartsWith(file, "backup_") /\ EndsWith(file, ".xlsx")

Exists(d, file) == file \in DOMAIN d
Unlink(d, file) == [f \in DOMAIN d \ {file} |-> d[f]]
Put(d, file, entry) == [f \in DOMAIN d \cup {file} |-> IF f = file THEN entry ELSE d[f]]
\* rename keeps the modification time; copyFile stamps the copy
Rename(d, from, to) == Put(Unlink(d, from), to, d[from])
CopyFile(d, from, to, t) == Put(d, to, [mtime |-> t, content |-> d[from].content])

Range(s) == {s[i] : i \in 1..Len(s)}

\* fsPromises.readdir: the names as an array.  The order the file system lists
\* them in is not specified; nothing below depends on it, since files are
\* picked by modification time and no two files carry the same one.
RECURSIVE AsArray(_)
AsArray(files) ==
    IF files = {} THEN <<>>
    ELSE LET f == CHOOSE f \in files : TRUE IN <<f>> \o AsArray(files \ {f})
Readdir(d) == AsArray(DOMAIN d)

\* a sort that puts the oldest first
RECURSIVE SortOldestFirst(_, _)
SortOldestFirst(files, d) ==
    IF files = {} THEN <<>>
    ELSE LET oldest == CHOOSE f \in files : \A g \in files : d[f].mtime <= d[g].mtime
         IN  <<oldest>> \o SortOldestFirst(files \ {oldest}, d)

\* `sort((a, b) => b.mtime - a.mtime)`: newest first
RECURSIVE SortByMtime(_, _)
SortByMtime(files, d) ==
    IF files = {} THEN <<>>
    ELSE LET newest == CHOOSE f \in files : \A g \in files : d[g].mtime <= d[f].mtime
         IN  <<newest>> \o SortByMtime(files \ {newest}, d)

\* Promise.all of the stats resolves only if every listed file still exists
StatAll(files, d) == \A i \in 1..Len(files) : Exists(d, files[i])

\* findCurrentBaseFile after its readdir: null if nothing matched or a stat
\* threw, else the first of the files sorted by modification time
MostRecent(files, d) ==
    IF files = <<>> \/ ~StatAll(files, d) THEN NoPath
    ELSE SortByMtime(Range(files), d)[1]

\* findCurrentBaseFile on a directory nobody changes meanwhile
findCurrentBaseFile(d) == MostRecent(SelectSeq(Readdir(d), IsBaseAtual), d)

\* findBackupBaseFile on a directory nobody changes meanwhile
findBackupBaseFile(d) == MostRecent(SelectSeq(Readdir(d), IsBackup), d)

\* getCurrentBaseFilePathSync: the same selection with the synchronous calls
getCurrentBaseFilePathSync(d) ==
    LET baseAtualFiles == SelectSeq(Readdir(d), IsBaseAtual)
    IN  IF baseAtualFiles # <<>> THEN SortByMtime(Range(baseAtualFiles), d)[1]
        ELSE IF Exists(d, BASE_CTOS_FILE) THEN BASE_CTOS_FILE ELSE NoPath

\* getCurrentBaseFilePath: the current base, else base.xlsx if it exists
getCurrentBaseFilePath(d) ==
    IF findCurrentBaseFile(d) # NoPath THEN findCurrentBaseFile(d)
    ELSE IF Exists(d, BASE_CTOS_FILE) THEN BASE_CTOS_FILE ELSE NoPath

\* How a file-system call on a file can end: it fails if the file is missing,
\* and may fail for another reason while failures are left to inject.
Outcomes(possible) ==
    IF ~possible THEN {FALSE} ELSE IF faultsLeft > 0 THEN {TRUE, FALSE} ELSE {TRUE}
Spend(ok, possible) == IF possible /\ ~ok THEN faultsLeft - 1 ELSE faultsLeft

InFlight == {u \in Uploads : upload[u].pc \notin {"idle", "done"}}
Goto(loc, label) == [loc EXCEPT !.pc = label]
Finished(loc, how) ==
    [Idle EXCEPT !.pc = "done", !.temp = loc.temp, !.outcome = how,
                 !.hadCurrent = loc.hadCurrent, !.prior = loc.prior,
                 !.backedUp = loc.backedUp, !.latLong = loc.latLong,
                 !.res = loc.res]

\* step 6: prune only if the listing of step 1 holds more than three backups
ToPrune(loc) ==
    IF Len(SelectSeq(loc.allFiles, IsBackup)) > BackupsKept
    THEN Goto(loc, "statBackups") ELSE Goto(loc, "renameTemp")

\* after the loop: the current base, if it is still there, is unlinked next
AfterLoop(loc, d) ==
    IF loc.currentBasePath # NoPath /\ Exists(d, loc.currentBasePath)
    THEN Goto(loc, "unlinkCurrent") ELSE ToPrune(loc)

\* `continue` for the current base while it still exists
RECURSIVE SkipCurrent(_, _, _)
SkipCurrent(files, current, d) ==
    IF files # <<>> /\ current # NoPath /\ Head(files) = current /\ Exists(d, current)
    THEN SkipCurrent(Tail(files), current, d) ELSE files

\* step 5, `for (const oldFile of allBaseAtualFiles)`, up to its next unlink
ToLoop(loc, files, d) ==
    LET rest == SkipCurrent(files, loc.currentBasePath, d)
    IN  IF rest # <<>> THEN [loc EXCEPT !.pc = "unlinkOld", !.pending = rest]
        ELSE AfterLoop([loc EXCEPT !.pending = <<>>], d)

\* ------------------------------------------------- validation of an upload
UpperCase == <<"A", "B", "C", "D", "E", "F", "G", "H", "I", "J", "K", "L", "M",
               "N", "O", "P", "Q", "R", "S", "T", "U", "V", "W", "X", "Y", "Z">>
LowerCase == <<"a", "b", "c", "d", "e", "f", "g", "h", "i", "j", "k", "l", "m",
               "n", "o", "p", "q", "r", "s", "t", "u", "v", "w", "x", "y", "z">>

\* String.prototype.toLowerCase, character by character
ToLowerCase(str) ==
    [i \in 1..Len(str) |->
        IF \E k \in 1..Len(UpperCase) : UpperCase[k] = str[i]
        THEN LowerCase[CHOOSE k \in 1..Len(UpperCase) : UpperCase[k] = str[i]]
        ELSE str[i]]

\* str.includes(sub)
Includes(str, sub) ==
    \E i \in 1..(Len(str) - Len(sub) + 1) : SubSeq(str, i, i + Len(sub) - 1) = sub

\* str.replace(a, b) with a one-character pattern: the first occurrence only
RECURSIVE ReplaceFirst(_, _, _)
ReplaceFirst(str, a, b) ==
    IF str = <<>> THEN <<>>
    ELSE IF Head(str) = a THEN <<b>> \o Tail(str)
    ELSE <<Head(str)>> \o ReplaceFirst(Tail(str), a, b)

\* criticalColumns = ['latitude', 'longitude']
criticalColumns == <<<<"l", "a", "t", "i", "t", "u", "d", "e">>, <<"l", "o", "n", "g", "i", "t", "u", "d", "e">>>>

\* `columns`: the header row lower-cased and trimmed, empty cells dropped
NormalizedColumns(headerRow) ==
    SelectSeq([i \in 1..Len(headerRow) |-> Trim(ToLowerCase(headerRow[i]))],
              LAMBDA col : col # <<>>)

\* the callback of `columns.some`: exact or partial correspondence with an
\* expected column
MatchesAnyColumn(col, expectedCol) == TRUE
MatchesColumn(col, expectedCol) ==
    LET colLower == ToLowerCase(expectedCol)
        normalizedCol == Trim(ToLowerCase(col))
    IN  \/ normalizedCol = colLower
        \/ normalizedCol = ReplaceFirst(colLower, "_", " ")
        \/ Includes(normalizedCol, colLower)
        \/ Includes(colLower, normalizedCol)

\* validateExcelStructure on a first sheet whose header row is headerRow
\* (<<>>: an empty sheet): valid unless a critical column is not found
validateExcelStructure(headerRow) ==
    LET columns == NormalizedColumns(headerRow)
        found(expectedCol) ==
            \E i \in 1..Len(columns) : MatchesColumn(columns[i], expectedCol)
        missingCritical == SelectSeq(criticalColumns, LAMBDA col : ~found(col))
    IN  IF headerRow = <<>> THEN [valid |-> FALSE]
        ELSE IF Len(missingCritical) > 0 THEN [valid |-> FALSE]
        ELSE [valid |-> TRUE]

\* Header rows of uploaded workbooks, each with whether it holds a latitude
\* column and a longitude column (exact, differing in case, abbreviated or
\* embedded in a longer name).
SampleHeaders ==
    << [row |-> <<<<"e", "s", "t", "a", "d", "o">>, <<"p", "o", "p">>>>, latLong |-> FALSE],
       [row |-> <<<<"L", "a", "t", "i", "t", "u", "d", "e">>, <<"L", "O", "N", "G", "I", "T", "U", "D", "E">>, <<"c", "t", "o">>>>, latLong |-> TRUE],
       [row |-> <<<<"l", "a", "t", "i", "t", "u", "d", "e">>, <<"p", "o", "p">>>>, latLong |-> FALSE],
       [row |-> <<<<"c", "t", "o">>, <<"l", "o", "n", "g", "i", "t", "u", "d", "e">>>>, latLong |-> FALSE],
       [row |-> <<<<" ", "l", "a", "t", " ">>, <<"l", "o", "n", "g">>>>, latLong |-> TRUE],
       [row |-> <<<<"g", "e", "o", "_", "l", "a", "t", "i", "t", "u", "d", "e">>, <<"l", "o", "n", "g", "i", "t", "u", "d", "e", " ", "(", "x", ")">>>>, latLong |-> TRUE],
       [row |-> <<>>, latLong |-> FALSE] >>

\* A request's file was stored in DATA_DIR/temp; the handler answers at once
\* and its background task then validates the header row and, when valid,
\* computes dateStr.  Requests are numbered in the order they arrive.
Arrive(u) ==
    /\ upload[u].pc = "idle"
    /\ \A v \in Uploads : v < u => upload[v].pc # "idle"
    /\ clock' = clock + 1
    /\ \E i \in 1..Len(SampleHeaders) :
         LET validation == validateExcelStructure(SampleHeaders[i].row)
             received == [Idle EXCEPT
                 !.temp = [exists |-> TRUE, mtime |-> clock + 1, content |-> u],
                 !.latLong = SampleHeaders[i].latLong,
                 !.res = UploadReceived]
         IN  upload' = [upload EXCEPT ![u] =
                 IF ~validation.valid THEN Goto(received, "unlinkInvalid")
                 ELSE [received EXCEPT !.pc = "readdir",
                           !.dateStr = formatDateForFilename(DateOf(today))]]
    /\ UNCHANGED <<today, dir, faultsLeft, unlinkFailed>>
    /\ UNCHANGED requestVars
    /\ UNCHANGED storeVars

\* validation failed: the temporary file is unlinked (errors logged) and the
\* background task returns
UnlinkInvalid(u) ==
    /\ upload[u].pc = "unlinkInvalid"
    /\ LET loc == upload[u]
           possible == loc.temp.exists
       IN  \E ok \in Outcomes(possible) :
             /\ faultsLeft' = Spend(ok, possible)
             /\ upload' = [upload EXCEPT ![u] =
                    Finished([loc EXCEPT !.temp = IF ok THEN NoTemp ELSE @], "rejected")]
    /\ UNCHANGED <<today, clock, dir, unlinkFailed>>
    /\ UNCHANGED requestVars
    /\ UNCHANGED storeVars

\* step 1: `const allFiles = await fsPromises.readdir(DATA_DIR)`
ListFiles(u) ==
    /\ upload[u].pc = "readdir"
    /\ upload' = [upload EXCEPT ![u] =
            [@ EXCEPT !.pc = "findReaddir", !.allFiles = Readdir(dir),
                      !.hadCurrent = (findCurrentBaseFile(dir) # NoPath),
                      !.prior = IF findCurrentBaseFile(dir) # NoPath
                                THEN dir[findCurrentBaseFile(dir)].content ELSE 0]]
    /\ UNCHANGED <<today, clock, dir, faultsLeft, unlinkFailed>>
    /\ UNCHANGED requestVars
    /\ UNCHANGED storeVars

\* step 2, findCurrentBaseFile: its readdir and filter
FindReaddir(u) ==
    /\ upload[u].pc = "findReaddir"
    /\ LET loc == upload[u]
           files == SelectSeq(Readdir(dir), IsBaseAtual)
       IN  upload' = [upload EXCEPT ![u] =
               IF files = <<>> THEN ToLoop(loc, SelectSeq(loc.allFiles, IsOldBase), dir)
               ELSE [loc EXCEPT !.pc = "findStat", !.baseAtualFiles = files]]
    /\ UNCHANGED <<today, clock, dir, faultsLeft, unlinkFailed>>
    /\ UNCHANGED requestVars
    /\ UNCHANGED storeVars

\* step 2, findCurrentBaseFile: the stats, the sort and the return
FindStat(u) ==
    /\ upload[u].pc = "findStat"
    /\ LET loc == upload[u]
           found == MostRecent(loc.baseAtualFiles, dir)
           next == [loc EXCEPT !.currentBasePath = found, !.baseAtualFiles = <<>>]
       IN  upload' = [upload EXCEPT ![u] =
               IF found # NoPath THEN Goto(next, "renameBackup")
               ELSE ToLoop(next, SelectSeq(loc.allFiles, IsOldBase), dir)]
    /\ UNCHANGED <<today, clock, dir, faultsLeft, unlinkFailed>>
    /\ UNCHANGED requestVars
    /\ UNCHANGED storeVars

\* step 3: `await fsPromises.rename(currentBasePath, newBackupPath)`
RenameBackup(u) ==
    /\ upload[u].pc = "renameBackup"
    /\ LET loc == upload[u]
           possible == Exists(dir, loc.currentBasePath)
       IN  \E ok \in Outcomes(possible) :
             /\ faultsLeft' = Spend(ok, possible)
             /\ dir' = IF ok THEN Rename(dir, loc.currentBasePath, BackupName(loc.dateStr))
                            ELSE dir
             /\ upload' = [upload EXCEPT ![u] =
                    IF ok THEN ToLoop([loc EXCEPT !.backedUp = TRUE],
                                      SelectSeq(loc.allFiles, IsOldBase), dir')
                    ELSE Goto(loc, "copyBackup")]
    /\ UNCHANGED <<today, clock, unlinkFailed>>
    /\ UNCHANGED requestVars
    /\ UNCHANGED storeVars

\* step 3, the rename threw: `await fsPromises.copyFile(currentBasePath, newBackupPath)`
CopyBackup(u) ==
    /\ upload[u].pc = "copyBackup"
    /\ LET loc == upload[u]
           possible == Exists(dir, loc.currentBasePath)
       IN  \E ok \in Outcomes(possible) :
             /\ faultsLeft' = Spend(ok, possible)
             /\ dir' = IF ok THEN CopyFile(dir, loc.currentBasePath,
                                           BackupName(loc.dateStr), clock + 1)
                            ELSE dir
             /\ clock' = IF ok THEN clock + 1 ELSE clock
             /\ upload' = [upload EXCEPT ![u] =
                    ToLoop([loc EXCEPT !.backedUp = ok],
                           SelectSeq(loc.allFiles, IsOldBase), dir')]
    /\ UNCHANGED <<today, unlinkFailed>>
    /\ UNCHANGED requestVars
    /\ UNCHANGED storeVars

\* step 5: `await fsPromises.unlink(oldFilePath)`, errors logged
UnlinkOld(u) ==
    /\ upload[u].pc = "unlinkOld"
    /\ LET loc == upload[u]
           oldFile == Head(loc.pending)
           possible == Exists(dir, oldFile)
       IN  \E ok \in Outcomes(possible) :
             /\ faultsLeft' = Spend(ok, possible)
             /\ unlinkFailed' = (unlinkFailed \/ (possible /\ ~ok))
             /\ dir' = IF ok THEN Unlink(dir, oldFile) ELSE dir
             /\ upload' = [upload EXCEPT ![u] = ToLoop(loc, Tail(loc.pending), dir')]
    /\ UNCHANGED <<today, clock>>
    /\ UNCHANGED requestVars
    /\ UNCHANGED storeVars

\* `if (currentBasePath && fs.existsSync(currentBasePath))`: unlink it, errors logged
UnlinkCurrent(u) ==
    /\ upload[u].pc = "unlinkCurrent"
    /\ LET loc == upload[u]
           possible == Exists(dir, loc.currentBasePath)
       IN  \E ok \in Outcomes(possible) :
             /\ faultsLeft' = Spend(ok, possible)
             /\ unlinkFailed' = (unlinkFailed \/ (possible /\ ~ok))
             /\ dir' = IF ok THEN Unlink(dir, loc.currentBasePath) ELSE dir
             /\ upload' = [upload EXCEPT ![u] = ToPrune(loc)]
    /\ UNCHANGED <<today, clock>>
    /\ UNCHANGED requestVars
    /\ UNCHANGED storeVars

\* step 6: the stats of the listed backups, the sort and `slice(3)`; a stat that
\* throws is not caught here and ends the task in its outer catch
StatBackups(u) ==
    /\ upload[u].pc = "statBackups"
    /\ LET loc == upload[u]
           allBackupFiles == SelectSeq(loc.allFiles, IsBackup)
           sorted == SortByMtime(Range(allBackupFiles), dir)
       IN  upload' = [upload EXCEPT ![u] =
               IF ~StatAll(allBackupFiles, dir) THEN Goto(loc, "cleanupTemp")
               ELSE [loc EXCEPT !.pc = "unlinkBackup",
                                !.pending = SubSeq(sorted, BackupsKept + 1, Len(sorted))]]
    /\ UNCHANGED <<today, clock, dir, faultsLeft, unlinkFailed>>
    /\ UNCHANGED requestVars
    /\ UNCHANGED storeVars

\* step 6: `await fsPromises.unlink(backup.path)`, errors logged
UnlinkBackup(u) ==
    /\ upload[u].pc = "unlinkBackup"
    /\ LET loc == upload[u]
           backup == Head(loc.pending)
           possible == Exists(dir, backup)
       IN  \E ok \in Outcomes(possible) :
             /\ faultsLeft' = Spend(ok, possible)
             /\ unlinkFailed' = (unlinkFailed \/ (possible /\ ~ok))
             /\ dir' = IF ok THEN Unlink(dir, backup) ELSE dir
             /\ upload' = [upload EXCEPT ![u] =
                    IF Tail(loc.pending) # <<>> THEN [loc EXCEPT !.pending = Tail(@)]
                    ELSE [loc EXCEPT !.pc = "renameTemp", !.pending = <<>>]]
    /\ UNCHANGED <<today, clock>>
    /\ UNCHANGED requestVars
    /\ UNCHANGED storeVars

\* step 7: `await fsPromises.rename(tempFilePath, newBasePath)`
RenameTemp(u) ==
    /\ upload[u].pc = "renameTemp"
    /\ LET loc == upload[u]
           possible == loc.temp.exists
       IN  \E ok \in Outcomes(possible) :
             /\ faultsLeft' = Spend(ok, possible)
             /\ dir' = IF ok THEN Put(dir, BaseAtualName(loc.dateStr),
                                      [mtime |-> loc.temp.mtime, content |-> loc.temp.content])
                            ELSE dir
             /\ upload' = [upload EXCEPT ![u] =
                    IF ok THEN Finished([loc EXCEPT !.temp = NoTemp], "ok")
                    ELSE Goto(loc, "copyTemp")]
    /\ UNCHANGED <<today, clock, unlinkFailed>>
    /\ UNCHANGED requestVars
    /\ UNCHANGED storeVars

\* step 7, the rename threw: `await fsPromises.copyFile(tempFilePath, newBasePath)`
CopyTemp(u) ==
    /\ upload[u].pc = "copyTemp"
    /\ LET loc == upload[u]
           possible == loc.temp.exists
       IN  \E ok \in Outcomes(possible) :
             /\ faultsLeft' = Spend(ok, possible)
             /\ dir' = IF ok THEN Put(dir, BaseAtualName(loc.dateStr),
                                      [mtime |-> clock + 1, content |-> loc.temp.content])
                            ELSE dir
             /\ clock' = IF ok THEN clock + 1 ELSE clock
             /\ upload' = [upload EXCEPT ![u] =
                    Goto(loc, IF ok THEN "unlinkTemp" ELSE "cleanupTemp")]
    /\ UNCHANGED <<today, unlinkFailed>>
    /\ UNCHANGED requestVars
    /\ UNCHANGED storeVars

\* step 7, after the copy: `await fsPromises.unlink(tempFilePath)`, not caught here
UnlinkTemp(u) ==
    /\ upload[u].pc = "unlinkTemp"
    /\ LET loc == upload[u]
           possible == loc.temp.exists
       IN  \E ok \in Outcomes(possible) :
             /\ faultsLeft' = Spend(ok, possible)
             /\ upload' = [upload EXCEPT ![u] =
                    IF ok THEN Finished([loc EXCEPT !.temp = NoTemp], "ok")
                    ELSE Goto(loc, "cleanupTemp")]
    /\ UNCHANGED <<today, clock, dir, unlinkFailed>>
    /\ UNCHANGED requestVars
    /\ UNCHANGED storeVars

\* the outer catch: unlink the temporary file, errors logged
CleanupTemp(u) ==
    /\ upload[u].pc = "cleanupTemp"
    /\ LET loc == upload[u]
           possible == loc.temp.exists
       IN  \E ok \in Outcomes(possible) :
             /\ faultsLeft' = Spend(ok, possible)
             /\ upload' = [upload EXCEPT ![u] =
                    Finished([loc EXCEPT !.temp = IF ok THEN NoTemp ELSE @], "failed")]
    /\ UNCHANGED <<today, clock, dir, unlinkFailed>>
    /\ UNCHANGED requestVars
    /\ UNCHANGED storeVars

\* midnight passes
NextDay ==
    /\ today < MaxDay
    /\ today' = today + 1
    /\ UNCHANGED <<clock, dir, faultsLeft, unlinkFailed, upload>>
    /\ UNCHANGED requestVars
    /\ UNCHANGED storeVars

\* ------------------------------------------- upload of src/backend/server.js
\* The handler of POST /api/upload-base in src/backend/server.js keeps the
\* upload in memory (multer.memoryStorage), validates it, finds the current
\* base and the newest backup, and then starts its file operations together:
\* they are handed to the file system at once and complete in any order.
\* `pending` holds the operations started and not yet completed.

\* the answers of this handler
UploadSucceeded == [status |-> 200, success |-> TRUE, processing |-> FALSE]
UploadRejected == [status |-> 400, success |-> FALSE, processing |-> FALSE]
UploadFailed == [status |-> 500, success |-> FALSE, processing |-> FALSE]

Operation(op, path) == [op |-> op, path |-> path]
Started(loc, op) == \E i \in 1..Len(loc.pending) : loc.pending[i].op = op
PathOf(loc, op) == (CHOOSE i \in 1..Len(loc.pending) : loc.pending[i].op = op)
Completed(loc, op) == SelectSeq(loc.pending, LAMBDA o : o.op # op)

\* the operations the handler pushes before its Promise.all
fileOperations(currentBasePath, backupBasePath, newBasePath) ==
    (IF currentBasePath # NoPath /\ backupBasePath # NoPath
     THEN <<Operation("unlink", backupBasePath)>> ELSE <<>>)
    \o (IF currentBasePath # NoPath
        THEN <<Operation("rename", currentBasePath)>> ELSE <<>>)
    \o <<Operation("writeFile", newBasePath)>>

\* ---- POST /api/upload-base up to `await Promise.all([...fileOperations, writeFile])`;
\* `valid` is what validateExcelStructure finds in the buffer
UploadBase(u, valid) ==
    /\ upload[u].pc = "idle"
    /\ InFlight = {}
    /\ \A v \in Uploads : v < u => upload[v].pc # "idle"
    /\ LET dateStr == formatDateForFilename(DateOf(today))
           currentBasePath == findCurrentBaseFile(dir)
           backupBasePath == findBackupBaseFile(dir)
           received == [Idle EXCEPT
               !.temp = [exists |-> TRUE, mtime |-> clock, content |-> u],
               !.latLong = valid]
       IN  upload' = [upload EXCEPT ![u] =
               IF ~valid
               THEN Finished([received EXCEPT !.res = UploadRejected], "rejected")
               ELSE [received EXCEPT
                        !.pc = "operations",
                        !.dateStr = dateStr,
                        !.currentBasePath = currentBasePath,
                        !.hadCurrent = currentBasePath # NoPath,
                        !.prior = IF currentBasePath # NoPath
                                  THEN dir[currentBasePath].content ELSE 0,
                        !.pending = fileOperations(currentBasePath, backupBasePath,
                                                   BaseAtualName(dateStr))]]
    /\ UNCHANGED <<today, clock, dir, faultsLeft, unlinkFailed>>
    /\ UNCHANGED requestVars
    /\ UNCHANGED storeVars

\* `fsPromises.unlink(backupBasePath)` completes; its error is logged
UnlinkBackupBase(u) ==
    /\ upload[u].pc = "operations" /\ Started(upload[u], "unlink")
    /\ LET loc == upload[u]
           backupBasePath == loc.pending[PathOf(loc, "unlink")].path
           possible == Exists(dir, backupBasePath)
       IN  \E ok \in Outcomes(possible) :
             /\ faultsLeft' = Spend(ok, possible)
             /\ unlinkFailed' = (unlinkFailed \/ (possible /\ ~ok))
             /\ dir' = IF ok THEN Unlink(dir, backupBasePath) ELSE dir
             /\ upload' = [upload EXCEPT ![u].pending = Completed(loc, "unlink")]
    /\ UNCHANGED <<today, clock>>
    /\ UNCHANGED requestVars
    /\ UNCHANGED storeVars

\* `fsPromises.rename(currentBasePath, newBackupPath)` completes; when it
\* throws, its catch starts the copy
RenameToBackup(u) ==
    /\ upload[u].pc = "operations" /\ Started(upload[u], "rename")
    /\ LET loc == upload[u]
           possible == Exists(dir, loc.currentBasePath)
       IN  \E ok \in Outcomes(possible) :
             /\ faultsLeft' = Spend(ok, possible)
             /\ dir' = IF ok THEN Rename(dir, loc.currentBasePath, BackupName(loc.dateStr))
                            ELSE dir
             /\ upload' = [upload EXCEPT ![u] =
                    [loc EXCEPT !.backedUp = ok,
                                !.pending = Completed(loc, "rename") \o
                                    (IF ok THEN <<>>
                                     ELSE <<Operation("copyFile", loc.currentBasePath)>>)]]
    /\ UNCHANGED <<today, clock, unlinkFailed>>
    /\ UNCHANGED requestVars
    /\ UNCHANGED storeVars

\* `fsPromises.copyFile(currentBasePath, newBackupPath)` completes; its error
\* is logged
CopyToBackup(u) ==
    /\ upload[u].pc = "operations" /\ Started(upload[u], "copyFile")
    /\ LET loc == upload[u]
           possible == Exists(dir, loc.currentBasePath)
       IN  \E ok \in Outcomes(possible) :
             /\ faultsLeft' = Spend(ok, possible)
             /\ dir' = IF ok THEN CopyFile(dir, loc.currentBasePath,
                                           BackupName(loc.dateStr), clock + 1)
                            ELSE dir
             /\ clock' = IF ok THEN clock + 1 ELSE clock
             /\ upload' = [upload EXCEPT ![u] =
                    [loc EXCEPT !.backedUp = ok, !.pending = Completed(loc, "copyFile")]]
    /\ UNCHANGED <<today, unlinkFailed>>
    /\ UNCHANGED requestVars
    /\ UNCHANGED storeVars

\* `fsPromises.writeFile(newBasePath, req.file.buffer)` completes; when it
\* throws, Promise.all rejects and the handler answers 500 at once, while the
\* operations still pending run on
WriteNewBase(u) ==
    /\ upload[u].pc = "operations" /\ Started(upload[u], "writeFile")
    /\ LET loc == upload[u]
       IN  \E ok \in Outcomes(TRUE) :
             /\ faultsLeft' = Spend(ok, TRUE)
             /\ dir' = IF ok THEN Put(dir, BaseAtualName(loc.dateStr),
                                      [mtime |-> clock + 1, content |-> loc.temp.content])
                            ELSE dir
             /\ clock' = IF ok THEN clock + 1 ELSE clock
             /\ upload' = [upload EXCEPT ![u] =
                    [loc EXCEPT !.res = IF ok THEN @ ELSE UploadFailed,
                                !.pending = Completed(loc, "writeFile")]]
    /\ UNCHANGED <<today, unlinkFailed>>
    /\ UNCHANGED requestVars
    /\ UNCHANGED storeVars

\* every operation has completed: `await fsPromises.stat(newBasePath)` and the
\* answer; a stat that throws is answered 500 by the outer catch
StatNewBase(u) ==
    /\ upload[u].pc = "operations" /\ upload[u].pending = <<>>
    /\ LET loc == upload[u]
           possible == Exists(dir, BaseAtualName(loc.dateStr))
       IN  IF loc.res # NoResponse
           THEN /\ upload' = [upload EXCEPT ![u] = Finished(loc, "failed")]
                /\ UNCHANGED faultsLeft
           ELSE \E ok \in Outcomes(possible) :
                  /\ faultsLeft' = Spend(ok, possible)
                  /\ upload' = [upload EXCEPT ![u] =
                         IF ok THEN Finished([loc EXCEPT !.res = UploadSucceeded], "ok")
                         ELSE Finished([loc EXCEPT !.res = UploadFailed], "failed")]
    /\ UNCHANGED <<today, clock, dir, unlinkFailed>>
    /\ UNCHANGED requestVars
    /\ UNCHANGED storeVars

\* the server has just started: no session, nothing served
NoSessions == <<>>    \* {}
NotServed == [route |-> "none"]

\* the roster and tag requests that may be suspended in a save at once
MaxRequests == 2

\* neither projetistas.xlsx nor tabulacoes.xlsx exists
NoStores == projetistas = NoFile /\ tabulacoes = NoFile

\* ------------------------------------------------------- roster and sessions
\* Supabase is not configured, so every roster and tag request takes its Excel
\* path.  The reads are synchronous and the only awaits of these handlers
\* (saveProjetistas, withLock on a key nobody holds across a macrotask) resolve
\* in microtasks: each handler runs to its response before the next request
\* or timer is served, and is one step here.  Messages are written without
\* their accents.
SESSION_TIMEOUT == 300000
MaxElapse == 2       \* how many times the session clock advances
ElapseMs == SESSION_TIMEOUT   \* one advance: the whole inactivity window

\* obj[key] = value
SetKey(obj, key, value) ==
    [k \in DOMAIN obj \cup {key} |-> IF k = key THEN value ELSE obj[k]]
\* delete obj[key]
DeleteKey(obj, key) == [k \in DOMAIN obj \ {key} |-> obj[k]]

\* position of a letter in the alphabet, whatever its case (0: not a letter)
CharRank(c) ==
    IF \E k \in 1..Len(LowerCase) : c \in {LowerCase[k], UpperCase[k]}
    THEN CHOOSE k \in 1..Len(LowerCase) : c \in {LowerCase[k], UpperCase[k]}
    ELSE 0

\* first difference in letters, case ignored
RECURSIVE CompareLetters(_, _)
CompareLetters(a, b) ==
    IF a = <<>> THEN (IF b = <<>> THEN 0 ELSE -1)
    ELSE IF b = <<>> THEN 1
    ELSE IF CharRank(Head(a)) < CharRank(Head(b)) THEN -1
    ELSE IF CharRank(Head(a)) > CharRank(Head(b)) THEN 1
    ELSE CompareLetters(Tail(a), Tail(b))

\* the same letters: at the first difference of case the lower-case one is first
RECURSIVE CompareCase(_, _)
CompareCase(a, b) ==
    IF a = <<>> \/ b = <<>> THEN 0
    ELSE IF Head(a) = Head(b) THEN CompareCase(Tail(a), Tail(b))
    ELSE IF ToLowerCase(<<Head(a)>>) = <<Head(a)>> THEN -1 ELSE 1

\* nomeA.localeCompare(nomeB) on names made of unaccented letters
localeCompare(a, b) ==
    IF CompareLetters(a, b) # 0 THEN CompareLetters(a, b) ELSE CompareCase(a, b)

\* projetistas.sort((a, b) => nomeA.localeCompare(nomeB)), a stable sort
RECURSIVE InsertByNome(_, _)
InsertByNome(sorted, p) ==
    IF sorted = <<>> THEN <<p>>
    ELSE IF localeCompare(p.nome, Head(sorted).nome) < 0 THEN <<p>> \o sorted
    ELSE <<Head(sorted)>> \o InsertByNome(Tail(sorted), p)

RECURSIVE SortByNome(_)
SortByNome(rows) ==
    IF rows = <<>> THEN <<>>
    ELSE InsertByNome(SortByNome(SubSeq(rows, 1, Len(rows) - 1)), rows[Len(rows)])

\* readProjetistasFromExcel: [] when the file is missing, else its rows with
\* nome and senha trimmed, rows without a name dropped
readProjetistas(file) ==
    IF ~file.exists THEN <<>>
    ELSE SelectSeq([i \in 1..Len(file.rows) |->
                       [nome |-> Trim(file.rows[i].nome), senha |-> Trim(file.rows[i].senha)]],
                   LAMBDA p : p.nome # <<>>)

\* projetistas.map(p => p.nome)
Nomes(rows) == [i \in 1..Len(rows) |-> rows[i].nome]

\* the comparison of the add handler with exact case
SameNomeExact(nomeProj, nome) == nomeProj = nome
\* nomeProj.toLowerCase() === nome.toLowerCase()
SameNome(nomeProj, nome) == ToLowerCase(nomeProj) = ToLowerCase(nome)

\* index of the first row whose name is nome, case ignored (0: none)
FindProjetista(rows, nome) ==
    IF \E i \in 1..Len(rows) : SameNome(rows[i].nome, nome)
    THEN CHOOSE i \in 1..Len(rows) :
            /\ SameNome(rows[i].nome, nome)
            /\ \A j \in 1..(i - 1) : ~SameNome(rows[j].nome, nome)
    ELSE 0

\* a request handled and the response it was sent
Served(route, usuario, status, body) ==
    [route |-> route, usuario |-> usuario, status |-> status, body |-> body]
Failure(error) == [success |-> FALSE, error |-> error]

\* ---- GET /api/projetistas
GetProjetistas ==
    /\ served' = Served("GET projetistas", <<>>, 200,
                        [success |-> TRUE, projetistas |-> Nomes(readProjetistas(projetistas))])
    /\ UNCHANGED <<projetistas, tabulacoes, activeSessions, logoutHistory>>
    /\ UNCHANGED inflight
    /\ UNCHANGED requestVars
    /\ UNCHANGED uploadVars

\* ---- POST /api/projetistas
AddProjetista(nome, senha) ==
    LET nomeLimpo == Trim(nome)
        senhaLimpa == Trim(senha)
        rows == readProjetistas(projetistas)
        existe == \E i \in 1..Len(rows) : SameNome(rows[i].nome, nomeLimpo)
        sorted == SortByNome(Append(rows, [nome |-> nomeLimpo, senha |-> senhaLimpa]))
        Reject(status, error) ==
            /\ served' = Served("POST projetistas", nomeLimpo, status, Failure(error))
            /\ UNCHANGED projetistas
    IN  /\ IF nomeLimpo = <<>> THEN Reject(400, "Nome do projetista e obrigatorio")
           ELSE IF senhaLimpa = <<>> THEN Reject(400, "Senha e obrigatoria")
           ELSE IF existe THEN Reject(200, "Projetista ja existe")
           ELSE /\ projetistas' = File(sorted)
                /\ served' = Served("POST projetistas", nomeLimpo, 200,
                                    [success |-> TRUE, projetistas |-> Nomes(sorted)])
        /\ UNCHANGED <<tabulacoes, activeSessions, logoutHistory>>
        /\ UNCHANGED inflight
        /\ UNCHANGED requestVars
        /\ UNCHANGED uploadVars

\* ---- DELETE /api/projetistas/:nome
DeleteProjetista(nome) ==
    LET nomeDecoded == Trim(nome)
        rows == readProjetistas(projetistas)
        existe == \E i \in 1..Len(rows) : rows[i].nome = nomeDecoded
        kept == SelectSeq(rows, LAMBDA p : p.nome # nomeDecoded)
    IN  /\ IF nomeDecoded = <<>>
           THEN /\ served' = Served("DELETE projetistas", nomeDecoded, 400,
                                    Failure("Nome do projetista nao pode estar vazio"))
                /\ UNCHANGED projetistas
           ELSE IF ~existe
           THEN /\ served' = Served("DELETE projetistas", nomeDecoded, 200,
                                    [success |-> FALSE, projetistas |-> Nomes(rows)])
                /\ UNCHANGED projetistas
           ELSE /\ projetistas' = File(kept)
                /\ served' = Served("DELETE projetistas", nomeDecoded, 200,
                                    [success |-> TRUE, projetistas |-> Nomes(kept)])
        /\ UNCHANGED <<tabulacoes, activeSessions, logoutHistory>>
        /\ UNCHANGED inflight
        /\ UNCHANGED requestVars
        /\ UNCHANGED uploadVars

\* ---- PUT /api/projetistas/:nome/name: the roster entry is renamed, and the
\* session and the logout entry kept under the old name move to the new one
RenameProjetista(nome, novoNome) ==
    LET nomeDecoded == Trim(nome)
        novoNomeLimpo == Trim(novoNome)
        rows == readProjetistas(projetistas)
        nomeJaExiste == \E i \in 1..Len(rows) :
                            /\ SameNome(rows[i].nome, novoNomeLimpo)
                            /\ ~SameNome(rows[i].nome, nomeDecoded)
        projetistaIndex == FindProjetista(rows, nomeDecoded)
        sorted == SortByNome([rows EXCEPT ![projetistaIndex].nome = novoNomeLimpo])
        Reject(status, error) ==
            /\ served' = Served("PUT name", nomeDecoded, status, Failure(error))
            /\ UNCHANGED <<projetistas, activeSessions, logoutHistory>>
    IN  /\ IF nomeDecoded = <<>>
           THEN Reject(400, "Nome do projetista nao pode estar vazio")
           ELSE IF novoNomeLimpo = <<>> THEN Reject(400, "Novo nome e obrigatorio")
           ELSE IF Len(novoNomeLimpo) < 2
           THEN Reject(400, "O novo nome deve ter pelo menos 2 caracteres")
           ELSE IF nomeJaExiste
           THEN Reject(400, "Este nome ja esta em uso por outro usuario")
           ELSE IF projetistaIndex = 0 THEN Reject(404, "Projetista nao encontrado")
           ELSE /\ projetistas' = File(sorted)
                /\ activeSessions' =
                       IF nomeDecoded \in DOMAIN activeSessions
                       THEN SetKey(DeleteKey(activeSessions, nomeDecoded), novoNomeLimpo,
                                   activeSessions[nomeDecoded])
                       ELSE activeSessions
                /\ logoutHistory' =
                       IF nomeDecoded \in DOMAIN logoutHistory
                       THEN DeleteKey(SetKey(logoutHistory, novoNomeLimpo,
                                             logoutHistory[nomeDecoded]), nomeDecoded)
                       ELSE logoutHistory
                /\ served' = Served("PUT name", nomeDecoded, 200,
                                    [success |-> TRUE, novoNome |-> novoNomeLimpo])
        /\ UNCHANGED tabulacoes
        /\ UNCHANGED inflight
        /\ UNCHANGED requestVars
        /\ UNCHANGED uploadVars

\* ---- PUT /api/projetistas/:nome/password
UpdatePassword(nome, senha) ==
    LET nomeDecoded == Trim(nome)
        rows == readProjetistas(projetistas)
        projetistaIndex == FindProjetista(rows, nomeDecoded)
        Reject(status, error) ==
            /\ served' = Served("PUT password", nomeDecoded, status, Failure(error))
            /\ UNCHANGED projetistas
    IN  /\ IF nomeDecoded = <<>>
           THEN Reject(400, "Nome do projetista nao pode estar vazio")
           ELSE IF Trim(senha) = <<>> THEN Reject(400, "Senha e obrigatoria")
           ELSE IF Len(Trim(senha)) < 4
           THEN Reject(400, "A senha deve ter pelo menos 4 caracteres")
           ELSE IF projetistaIndex = 0 THEN Reject(404, "Projetista nao encontrado")
           ELSE /\ projetistas' = File([rows EXCEPT ![projetistaIndex].senha = Trim(senha)])
                /\ served' = Served("PUT password", nomeDecoded, 200, [success |-> TRUE])
        /\ UNCHANGED <<tabulacoes, activeSessions, logoutHistory>>
        /\ UNCHANGED inflight
        /\ UNCHANGED requestVars
        /\ UNCHANGED uploadVars

\* ---- POST /api/auth/login
Login(usuario, senha) ==
    LET usuarioLimpo == Trim(usuario)
        senhaLimpa == Trim(senha)
        rows == readProjetistas(projetistas)
        found == FindProjetista(rows, usuarioLimpo)
        Reject(status, error) ==
            /\ served' = Served("login", usuarioLimpo, status, Failure(error))
            /\ UNCHANGED <<activeSessions, logoutHistory>>
    IN  /\ IF usuarioLimpo = <<>> THEN Reject(400, "Usuario e obrigatorio")
           ELSE IF senhaLimpa = <<>> THEN Reject(400, "Senha e obrigatoria")
           ELSE IF found = 0 THEN Reject(200, "Usuario ou senha incorretos")
           ELSE IF rows[found].senha # senhaLimpa
           THEN Reject(200, "Usuario ou senha incorretos")
           ELSE /\ activeSessions' = SetKey(activeSessions, usuarioLimpo,
                                            [lastActivity |-> now, loginTime |-> now])
                /\ logoutHistory' = DeleteKey(logoutHistory, usuarioLimpo)
                /\ served' = Served("login", usuarioLimpo, 200, [success |-> TRUE])
        /\ UNCHANGED <<projetistas, tabulacoes>>
        /\ UNCHANGED inflight
        /\ UNCHANGED requestVars
        /\ UNCHANGED uploadVars

\* the entry logout would store if it kept the session's last activity
LogoutEntryLastActivity(session, t) == [logoutTime |-> session.lastActivity]
\* logoutHistory[usuarioLimpo] = { logoutTime: Date.now() }
LogoutEntry(session, t) == [logoutTime |-> t]

\* ---- POST /api/auth/logout
Logout(usuario) ==
    LET usuarioLimpo == Trim(usuario)
    IN  /\ IF usuarioLimpo # <<>> /\ usuarioLimpo \in DOMAIN activeSessions
           THEN /\ logoutHistory' = SetKey(logoutHistory, usuarioLimpo,
                                           LogoutEntry(activeSessions[usuarioLimpo], now))
                /\ activeSessions' = DeleteKey(activeSessions, usuarioLimpo)
           ELSE UNCHANGED <<activeSessions, logoutHistory>>
        /\ served' = Served("logout", usuarioLimpo, 200, [success |-> TRUE])
        /\ UNCHANGED <<projetistas, tabulacoes>>
        /\ UNCHANGED inflight
        /\ UNCHANGED requestVars
        /\ UNCHANGED uploadVars

\* a heartbeat that opens a session for an identity that has none
TouchOrCreate(sessions, usuario, t) ==
    IF usuario \in DOMAIN sessions
    THEN [sessions EXCEPT ![usuario].lastActivity = t]
    ELSE SetKey(sessions, usuario, [lastActivity |-> t, loginTime |-> t])
\* if (activeSessions[usuarioLimpo]) activeSessions[usuarioLimpo].lastActivity = Date.now()
Touch(sessions, usuario, t) ==
    IF usuario \in DOMAIN sessions
    THEN [sessions EXCEPT ![usuario].lastActivity = t]
    ELSE sessions

\* ---- POST /api/users/heartbeat
Heartbeat(usuario) ==
    LET usuarioLimpo == Trim(usuario)
    IN  /\ activeSessions' = IF usuarioLimpo # <<>>
                             THEN Touch(activeSessions, usuarioLimpo, now)
                             ELSE activeSessions
        /\ served' = Served("heartbeat", usuarioLimpo, 200, [success |-> TRUE])
        /\ UNCHANGED <<projetistas, tabulacoes, logoutHistory>>
        /\ UNCHANGED inflight
        /\ UNCHANGED requestVars
        /\ UNCHANGED uploadVars

\* now - activeSessions[usuario].lastActivity <= SESSION_TIMEOUT
StillOnline(session, t) == t - session.lastActivity <= SESSION_TIMEOUT
\* now - activeSessions[usuario].lastActivity > SESSION_TIMEOUT
Inactive(session, t) == t - session.lastActivity > SESSION_TIMEOUT

\* the entry an expiry would store if it kept the time of the check
ExpiredEntryNow(session, t) == [logoutTime |-> t]
\* logoutHistory[usuario] = { logoutTime: activeSessions[usuario].lastActivity }
ExpiredEntry(session, t) == [logoutTime |-> session.lastActivity]

\* the sessions in `expired` are deleted and entered in the logout history
Expire(expired, t) ==
    /\ activeSessions' = [u \in DOMAIN activeSessions \ expired |-> activeSessions[u]]
    /\ logoutHistory' = [u \in DOMAIN logoutHistory \cup expired |->
                            IF u \in expired THEN ExpiredEntry(activeSessions[u], t)
                            ELSE logoutHistory[u]]

\* ---- GET /api/users/online (the order of onlineUsers is not modelled;
\* `expired` records which sessions the call removed)
ListOnline ==
    LET onlineUsers == {u \in DOMAIN activeSessions : StillOnline(activeSessions[u], now)}
        expired == DOMAIN activeSessions \ onlineUsers
    IN  /\ Expire(expired, now)
        /\ served' = [route |-> "online", status |-> 200, expired |-> expired,
                      body |-> [success |-> TRUE, onlineUsers |-> onlineUsers,
                                usersInfo |->
                                    [u \in onlineUsers \cup DOMAIN logoutHistory' |->
                                        IF u \in onlineUsers
                                        THEN [status |-> "online",
                                              loginTime |-> activeSessions[u].loginTime]
                                        ELSE [status |-> "offline",
                                              logoutTime |-> logoutHistory'[u].logoutTime]]]]
        /\ UNCHANGED <<projetistas, tabulacoes>>
        /\ UNCHANGED inflight
        /\ UNCHANGED requestVars
        /\ UNCHANGED uploadVars

\* ---- the setInterval callback that clears inactive sessions
Sweep ==
    LET expired == {u \in DOMAIN activeSessions : Inactive(activeSessions[u], now)}
    IN  /\ Expire(expired, now)
        /\ served' = [route |-> "sweep", expired |-> expired]
        /\ UNCHANGED <<projetistas, tabulacoes>>
        /\ UNCHANGED inflight
        /\ UNCHANGED requestVars
        /\ UNCHANGED uploadVars

\* ---- time passes between two requests
Elapse ==
    /\ now < MaxElapse * ElapseMs
    /\ now' = now + ElapseMs
    /\ served' = NotServed
    /\ UNCHANGED <<projetistas, tabulacoes, activeSessions, logoutHistory>>
    /\ UNCHANGED inflight
    /\ UNCHANGED behindClock
    /\ UNCHANGED uploadVars

\* ---------------------------------------------------------------- tag list
\* the tags the server writes when tabulacoes.xlsx is missing
defaultTabulacoes ==
    <<
       <<"A", "p", "r", "o", "v", "a", "d", "o", " ", "C", "o", "m", " ",
         "P", "o", "r", "t", "a", "s">>,
       <<"A", "p", "r", "o", "v", "a", "d", "o", " ", "C", "o", "m", " ",
         "A", "l", "i", "v", "i", "o", " ", "d", "e", " ", "R", "e", "d",
         "e", "/", "C", "l", "e", "a", "n", "u", "p">>,
       <<"A", "p", "r", "o", "v", "a", "d", "o", " ", "P", "r", "e", "d",
         "i", "o", " ", "N", "a", "o", " ", "C", "a", "b", "e", "a", "d",
         "o">>,
       <<"A", "p", "r", "o", "v", "a", "d", "o", " ", "-", " ", "E", "n",
         "d", "e", "r", "e", "c", "o", " ", "n", "a", "o", " ", "L", "o",
         "c", "a", "l", "i", "z", "a", "d", "o">>,
       <<"F", "o", "r", "a", " ", "d", "a", " ", "A", "r", "e", "a", " ",
         "d", "e", " ", "C", "o", "b", "e", "r", "t", "u", "r", "a">>
    >>

\* readTabulacoesFromExcel on an existing file: the names, blank ones dropped,
\* trimmed
TabulacoesOf(file) ==
    LET kept == SelectSeq(file.rows, LAMBDA nome : Trim(nome) # <<>>)
    IN  [i \in 1..Len(kept) |-> Trim(kept[i])]

\* a read of the tag list that gives [] when the file is missing
readTabulacoesEmpty(file) == IF ~file.exists THEN <<>> ELSE TabulacoesOf(file)
\* readTabulacoesFromExcel: the default tags when the file is missing
readTabulacoes(file) == IF ~file.exists THEN defaultTabulacoes ELSE TabulacoesOf(file)

\* ---- GET /api/tabulacoes: a missing file is first written with the defaults
GetTabulacoes ==
    /\ tabulacoes' = IF ~tabulacoes.exists THEN File(defaultTabulacoes) ELSE tabulacoes
    /\ served' = Served("GET tabulacoes", <<>>, 200,
                        [success |-> TRUE, tabulacoes |-> readTabulacoes(tabulacoes)])
    /\ UNCHANGED <<projetistas, activeSessions, logoutHistory>>
    /\ UNCHANGED inflight
    /\ UNCHANGED requestVars
    /\ UNCHANGED uploadVars

\* the characters of tag names in ascending order of their UTF-16 code unit
CodeOrder == <<" ", "(", ")", "-", "/">> \o DigitChars \o UpperCase \o <<"_">> \o LowerCase
CodeUnit(c) == CHOOSE k \in 1..Len(CodeOrder) : CodeOrder[k] = c

\* the comparison of Array.prototype.sort() without a comparator: strings by
\* code units, a proper prefix first
RECURSIVE CompareCodeUnits(_, _)
CompareCodeUnits(a, b) ==
    IF a = <<>> THEN (IF b = <<>> THEN 0 ELSE -1)
    ELSE IF b = <<>> THEN 1
    ELSE IF CodeUnit(Head(a)) < CodeUnit(Head(b)) THEN -1
    ELSE IF CodeUnit(Head(a)) > CodeUnit(Head(b)) THEN 1
    ELSE CompareCodeUnits(Tail(a), Tail(b))

RECURSIVE InsertTag(_, _)
InsertTag(sorted, nome) ==
    IF sorted = <<>> THEN <<nome>>
    ELSE IF CompareCodeUnits(nome, Head(sorted)) < 0 THEN <<nome>> \o sorted
    ELSE <<Head(sorted)>> \o InsertTag(Tail(sorted), nome)

\* tabulacoes.sort()
RECURSIVE SortTags(_)
SortTags(nomes) ==
    IF nomes = <<>> THEN <<>>
    ELSE InsertTag(SortTags(SubSeq(nomes, 1, Len(nomes) - 1)), nomes[Len(nomes)])

\* tabulacoes.indexOf(nome) + 1 (0: not in the list)
IndexOfTag(nomes, nome) ==
    IF \E i \in 1..Len(nomes) : nomes[i] = nome
    THEN CHOOSE i \in 1..Len(nomes) :
            nomes[i] = nome /\ \A j \in 1..(i - 1) : nomes[j] # nome
    ELSE 0

\* tabulacoes.splice(index, 1)
Splice(nomes, index) == SubSeq(nomes, 1, index - 1) \o SubSeq(nomes, index + 1, Len(nomes))

\* the file after `await readTabulacoes()`: a missing file was written with
\* the defaults
AfterRead(file) == IF ~file.exists THEN File(defaultTabulacoes) ELSE file

\* ---- POST /api/tabulacoes
AddTabulacao(nome) ==
    LET nomeLimpo == Trim(nome)
        lista == readTabulacoes(tabulacoes)
        sorted == SortTags(Append(lista, nomeLimpo))
    IN  /\ IF nomeLimpo = <<>>
           THEN /\ served' = Served("POST tabulacoes", nomeLimpo, 400,
                                    Failure("Nome da tabulacao e obrigatorio"))
                /\ UNCHANGED tabulacoes
           ELSE IF IndexOfTag(lista, nomeLimpo) # 0
           THEN /\ served' = Served("POST tabulacoes", nomeLimpo, 200,
                                    [success |-> TRUE, tabulacoes |-> lista,
                                     message |-> "Tabulacao ja existe"])
                /\ tabulacoes' = AfterRead(tabulacoes)
           ELSE /\ served' = Served("POST tabulacoes", nomeLimpo, 200,
                                    [success |-> TRUE, tabulacoes |-> sorted,
                                     message |-> "Tabulacao adicionada com sucesso"])
                /\ tabulacoes' = File(sorted)
        /\ UNCHANGED <<projetistas, activeSessions, logoutHistory>>
        /\ UNCHANGED inflight
        /\ UNCHANGED requestVars
        /\ UNCHANGED uploadVars

\* ---- DELETE /api/tabulacoes/:nome
DeleteTabulacao(nome) ==
    LET nomeLimpo == Trim(nome)
        lista == readTabulacoes(tabulacoes)
        index == IndexOfTag(lista, nomeLimpo)
        kept == Splice(lista, index)
    IN  /\ IF nomeLimpo = <<>>
           THEN /\ served' = Served("DELETE tabulacoes", nomeLimpo, 400,
                                    Failure("Nome da tabulacao e obrigatorio"))
                /\ UNCHANGED tabulacoes
           ELSE IF index = 0
           THEN /\ served' = Served("DELETE tabulacoes", nomeLimpo, 404,
                                    Failure("Tabulacao nao encontrada"))
                /\ tabulacoes' = AfterRead(tabulacoes)
           ELSE /\ served' = Served("DELETE tabulacoes", nomeLimpo, 200,
                                    [success |-> TRUE, tabulacoes |-> kept,
                                     message |-> "Tabulacao deletada com sucesso"])
                /\ tabulacoes' = File(kept)
        /\ UNCHANGED <<projetistas, activeSessions, logoutHistory>>
        /\ UNCHANGED inflight
        /\ UNCHANGED requestVars
        /\ UNCHANGED uploadVars

\* ------------------------------------------------- saves that lose Supabase
\* Supabase is configured and every call to it answers with an error.  A roster
\* or tag handler then takes its Excel path after the failed attempt: it reads
\* the workbook, builds the new list and calls saveProjetistas or
\* saveTabulacoes, which first awaits the Supabase delete (a network round
\* trip) and only after its error writes the workbook under withLock.  Other
\* requests run while the save is suspended; the write itself (withLock on a
\* free key around a synchronous XLSX.writeFile) completes without yielding to
\* another request.

\* a request leaves its handler suspended in the save of `rows` to workbook
\* `key`; `response` is what it answers once the save is done and `moved` the
\* pair of names whose session entries a rename moves after the save
Suspend(key, rows, response, moved) ==
    /\ BagCardinality(inflight) < MaxRequests
    /\ inflight' = inflight (+) SetToBag({[key |-> key, rows |-> rows,
                                           response |-> response, moved |-> moved]})
    /\ served' = NotServed

\* the tag handler leaves it suspended in the save of `lista`
SuspendTags(lista, response) ==
    /\ BagCardinality(inflight) < MaxRequests
    /\ inflight' = inflight (+) SetToBag({[key |-> "tabulacoes", lista |-> lista,
                                           response |-> response]})
    /\ served' = NotServed

\* a request answers without saving
Answer(response) ==
    /\ UNCHANGED inflight
    /\ served' = response

\* ---- POST /api/projetistas, Excel path, up to `await saveProjetistas`
AddProjetistaFallback(nome, senha) ==
    LET nomeLimpo == Trim(nome)
        senhaLimpa == Trim(senha)
        rows == readProjetistas(projetistas)
        existe == \E i \in 1..Len(rows) : SameNome(rows[i].nome, nomeLimpo)
        sorted == SortByNome(Append(rows, [nome |-> nomeLimpo, senha |-> senhaLimpa]))
        Reject(status, error) ==
            Answer(Served("POST projetistas", nomeLimpo, status, Failure(error)))
    IN  /\ IF nomeLimpo = <<>> THEN Reject(400, "Nome do projetista e obrigatorio")
           ELSE IF senhaLimpa = <<>> THEN Reject(400, "Senha e obrigatoria")
           ELSE IF existe THEN Reject(200, "Projetista ja existe")
           ELSE Suspend("projetistas", sorted,
                        Served("POST projetistas", nomeLimpo, 200,
                               [success |-> TRUE, projetistas |-> Nomes(sorted)]), <<>>)
        /\ UNCHANGED <<projetistas, tabulacoes, activeSessions, logoutHistory>>
        /\ UNCHANGED requestVars
        /\ UNCHANGED uploadVars

\* ---- DELETE /api/projetistas/:nome, Excel path, up to `await saveProjetistas`
DeleteProjetistaFallback(nome) ==
    LET nomeDecoded == Trim(nome)
        rows == readProjetistas(projetistas)
        existe == \E i \in 1..Len(rows) : rows[i].nome = nomeDecoded
        kept == SelectSeq(rows, LAMBDA p : p.nome # nomeDecoded)
    IN  /\ IF nomeDecoded = <<>>
           THEN Answer(Served("DELETE projetistas", nomeDecoded, 400,
                                 Failure("Nome do projetista nao pode estar vazio")))
           ELSE IF ~existe
           THEN Answer(Served("DELETE projetistas", nomeDecoded, 200,
                                 [success |-> FALSE, projetistas |-> Nomes(rows)]))
           ELSE Suspend("projetistas", kept,
                        Served("DELETE projetistas", nomeDecoded, 200,
                               [success |-> TRUE, projetistas |-> Nomes(kept)]), <<>>)
        /\ UNCHANGED <<projetistas, tabulacoes, activeSessions, logoutHistory>>
        /\ UNCHANGED requestVars
        /\ UNCHANGED uploadVars

\* ---- PUT /api/projetistas/:nome/name, Excel path, up to `await saveProjetistas`
RenameProjetistaFallback(nome, novoNome) ==
    LET nomeDecoded == Trim(nome)
        novoNomeLimpo == Trim(novoNome)
        rows == readProjetistas(projetistas)
        nomeJaExiste == \E i \in 1..Len(rows) :
                            /\ SameNome(rows[i].nome, novoNomeLimpo)
                            /\ ~SameNome(rows[i].nome, nomeDecoded)
        projetistaIndex == FindProjetista(rows, nomeDecoded)
        sorted == SortByNome([rows EXCEPT ![projetistaIndex].nome = novoNomeLimpo])
        Reject(status, error) ==
            Answer(Served("PUT name", nomeDecoded, status, Failure(error)))
    IN  /\ IF nomeDecoded = <<>>
           THEN Reject(400, "Nome do projetista nao pode estar vazio")
           ELSE IF novoNomeLimpo = <<>> THEN Reject(400, "Novo nome e obrigatorio")
           ELSE IF Len(novoNomeLimpo) < 2
           THEN Reject(400, "O novo nome deve ter pelo menos 2 caracteres")
           ELSE IF nomeJaExiste
           THEN Reject(400, "Este nome ja esta em uso por outro usuario")
           ELSE IF projetistaIndex = 0 THEN Reject(404, "Projetista nao encontrado")
           ELSE Suspend("projetistas", sorted,
                        Served("PUT name", nomeDecoded, 200,
                               [success |-> TRUE, novoNome |-> novoNomeLimpo]),
                        <<nomeDecoded, novoNomeLimpo>>)
        /\ UNCHANGED <<projetistas, tabulacoes, activeSessions, logoutHistory>>
        /\ UNCHANGED requestVars
        /\ UNCHANGED uploadVars

\* ---- PUT /api/projetistas/:nome/password, Excel path, up to `await saveProjetistas`
UpdatePasswordFallback(nome, senha) ==
    LET nomeDecoded == Trim(nome)
        rows == readProjetistas(projetistas)
        projetistaIndex == FindProjetista(rows, nomeDecoded)
        Reject(status, error) ==
            Answer(Served("PUT password", nomeDecoded, status, Failure(error)))
    IN  /\ IF nomeDecoded = <<>>
           THEN Reject(400, "Nome do projetista nao pode estar vazio")
           ELSE IF Trim(senha) = <<>> THEN Reject(400, "Senha e obrigatoria")
           ELSE IF Len(Trim(senha)) < 4
           THEN Reject(400, "A senha deve ter pelo menos 4 caracteres")
           ELSE IF projetistaIndex = 0 THEN Reject(404, "Projetista nao encontrado")
           ELSE Suspend("projetistas",
                        [rows EXCEPT ![projetistaIndex].senha = Trim(senha)],
                        Served("PUT password", nomeDecoded, 200, [success |-> TRUE]), <<>>)
        /\ UNCHANGED <<projetistas, tabulacoes, activeSessions, logoutHistory>>
        /\ UNCHANGED requestVars
        /\ UNCHANGED uploadVars

\* ---- POST /api/tabulacoes, Excel path, up to `await saveTabulacoes`
AddTabulacaoFallback(nome) ==
    LET nomeLimpo == Trim(nome)
        lista == readTabulacoes(tabulacoes)
        sorted == SortTags(Append(lista, nomeLimpo))
    IN  /\ IF nomeLimpo = <<>>
           THEN Answer(Served("POST tabulacoes", nomeLimpo, 400,
                                 Failure("Nome da tabulacao e obrigatorio")))
           ELSE IF IndexOfTag(lista, nomeLimpo) # 0
           THEN Answer(Served("POST tabulacoes", nomeLimpo, 200,
                                 [success |-> TRUE, tabulacoes |-> lista,
                                  message |-> "Tabulacao ja existe"]))
           ELSE SuspendTags(sorted,
                            Served("POST tabulacoes", nomeLimpo, 200,
                                   [success |-> TRUE, tabulacoes |-> sorted,
                                    message |-> "Tabulacao adicionada com sucesso"]))
        /\ tabulacoes' = AfterRead(tabulacoes)
        /\ UNCHANGED <<projetistas, activeSessions, logoutHistory>>
        /\ UNCHANGED requestVars
        /\ UNCHANGED uploadVars

\* the session entry kept under moved[1] goes to moved[2]
MoveKey(sessions, moved) ==
    IF moved # <<>> /\ moved[1] \in DOMAIN sessions
    THEN SetKey(DeleteKey(sessions, moved[1]), moved[2], sessions[moved[1]])
    ELSE sessions

\* ---- the Supabase delete of a suspended save has answered with its error:
\* saveProjetistasToExcel / saveTabulacoesToExcel write the list the handler
\* built, and the handler answers
SaveFallback ==
    \E save \in BagToSet(inflight) :
        /\ IF save.key = "projetistas"
           THEN /\ projetistas' = File(save.rows)
                /\ activeSessions' = MoveKey(activeSessions, save.moved)
                /\ logoutHistory' = MoveKey(logoutHistory, save.moved)
                /\ UNCHANGED tabulacoes
           ELSE /\ tabulacoes' = File(save.lista)
                /\ UNCHANGED <<projetistas, activeSessions, logoutHistory>>
        /\ served' = save.response
        /\ inflight' = inflight (-) SetToBag({save})
        /\ UNCHANGED requestVars
        /\ UNCHANGED uploadVars

InitRequests ==
    /\ now = 0
    /\ fileLocks = [k \in Keys |-> NoLock]
    /\ waiters = [k \in Keys |-> <<>>]
    /\ mq = <<>>
    /\ pc = [p \in Procs |-> "idle"]
    /\ lockName = [p \in Procs |-> "vi_ala"]
    /\ startTime = [p \in Procs |-> 0]
    /\ opOutcome = [p \in Procs |-> "none"]
    /\ result = [p \in Procs |-> "none"]
    /\ kind = [p \in Procs |-> "none"]
    /\ at = [p \in Procs |-> "-"]
    /\ sawExists = [p \in Procs |-> FALSE]
    /\ data = [p \in Procs |-> <<>>]
    /\ viAla = [p \in Procs |-> NoId]
    /\ committed = <<>>
    /\ today = 0
    /\ faultsLeft = MaxFaults
    /\ unlinkFailed = FALSE
    /\ upload = [u \in Uploads |-> Idle]
    /\ activeSessions = NoSessions
    /\ logoutHistory = NoSessions
    /\ served = NotServed
    /\ inflight = EmptyBag

\* A fresh data directory: base_VI ALA.xlsx does not exist yet.
Init == InitRequests /\ NoStores /\ ledger = NoFile /\ dir = EmptyDir /\ clock = 0

\* Rows a ledger may hold when the server starts, with the number the scan has to
\* read from each (-1: the row has to be skipped).  Derived by hand from the
\* regular expression of getNextVIALAFromExcel.
SampleCells == <<
    <<StrCell(<<"V", "I", " ", "A", "L", "A", "-", "0", "0", "0", "0", "0", "0", "3">>), 3>>,
    <<StrCell(<<"V", "I", " ", "A", "L", "A", "-", "0", "0", "0", "0", "0", "0", "7">>), 7>>,
    <<StrCell(<<"v", "i", " ", "a", "l", "a", " ", "1", "2">>), 12>>,
    <<StrCell(<<"x", "V", "I", "A", "L", "A", "-", " ", "2", "0", "y", "9">>), 20>>,
    <<StrCell(<<"V", "I", " ", "A", "L", "A", "-">>), -1>>,
    <<StrCell(<<"A", "L", "A", "-", "5", "5">>), -1>>,
    <<StrCell(<<>>), -1>>,
    <<NumCell(<<"1", "5">>), -1>> >>

SampleRows == {[id |-> SampleCells[i][1], by |-> 0] : i \in 1..Len(SampleCells)}

InitialLedgers == {File(rows) : rows \in UNION {[1..n -> SampleRows] : n \in 0..MaxLedgerLen}}

\* A data directory whose ledger is missing, empty or holds rows written earlier.
InitAnyLedger ==
    /\ InitRequests /\ NoStores
    /\ ledger \in {NoFile} \cup InitialLedgers /\ dir = EmptyDir /\ clock = 0

NextGate ==
    \/ \E p \in Procs, k \in Keys : Call(p, k)
    \/ \E p \in Procs : Wake(p)
    \/ \E p \in Procs, o \in {"ok", "throw"} : OpSettle(p, o)
    \/ \E p \in Procs : Finally(p)
    \/ Tick

SpecGate == Init /\ [][NextGate]_vars

\* Concurrent requests on the ticket ledger: clients that fetch the next ID and
\* save a record with it, the list route and the ensure-base route.  The clock
\* does not advance here (no wait times out); SpecGate covers the timeout.
NextLedger ==
    \/ \E p \in Procs : StartNext(p)
    \/ \E p \in Procs : NextAccess(p)
    \/ \E p \in Procs : NextAfterAccess(p)
    \/ \E p \in Procs : NextRead(p)
    \/ \E p \in Procs : SaveCall(p)
    \/ \E p \in Procs : EnsureCall(p)
    \/ \E p \in Procs : ListStart(p)
    \/ \E p \in Procs : EnsureAccess(p)
    \/ \E p \in Procs : EnsureAfterAccess(p)
    \/ \E p \in Procs : ReadFile(p)
    \/ \E p \in Procs : SaveWrite(p)
    \/ \E p \in Procs : ListDone(p)
    \/ \E p \in Procs : Wake(p)
    \/ \E p \in Procs : Finally(p)

SpecLedger == Init /\ [][NextLedger]_vars

\* no other request is in flight
Alone(p) == \A q \in Procs : q # p => pc[q] \in {"idle", "done"}

\* Clients served strictly one after the other: each fetches the next ID and
\* saves a record with it before the next client starts.
NextSeq ==
    \/ \E p \in Procs : Alone(p) /\ StartNext(p)
    \/ \E p \in Procs : Alone(p) /\ NextAccess(p)
    \/ \E p \in Procs : Alone(p) /\ NextAfterAccess(p)
    \/ \E p \in Procs : Alone(p) /\ NextRead(p)
    \/ \E p \in Procs : Alone(p) /\ SaveCall(p)
    \/ \E p \in Procs : Alone(p) /\ EnsureAccess(p)
    \/ \E p \in Procs : Alone(p) /\ EnsureAfterAccess(p)
    \/ \E p \in Procs : Alone(p) /\ ReadFile(p)
    \/ \E p \in Procs : Alone(p) /\ SaveWrite(p)
    \/ \E p \in Procs : Alone(p) /\ Finally(p)

SpecSeq == InitAnyLedger /\ [][NextSeq]_vars


\* what four uploads on the four days before the start leave behind: three
\* backups and the current base (contents -4 .. -1, in upload order)
EarlierRun ==
    LET name(prefix, i) == <<prefix>> \o formatDateForFilename(DateOf(i)) \o <<".xlsx">>
    IN  [f \in {name("backup_", -3), name("backup_", -2), name("backup_", -1),
                name("base_atual_", -1)} |->
            IF f = name("backup_", -3) THEN [mtime |-> 1, content |-> -4]
            ELSE IF f = name("backup_", -2) THEN [mtime |-> 2, content |-> -3]
            ELSE IF f = name("backup_", -1) THEN [mtime |-> 3, content |-> -2]
            ELSE [mtime |-> 4, content |-> -1]]

\* The data directory when the server has started: empty, or holding the old
\* base.xlsx and the copy the start-up migration made of it (content 0), or
\* the files of an earlier run.
StartDirs ==
    { [dir |-> EmptyDir, clock |-> 0],
      [dir |-> Put(Put(EmptyDir, BASE_CTOS_FILE, [mtime |-> 0, content |-> 0]),
                   BaseAtualName(formatDateForFilename(DateOf(0))),
                   [mtime |-> 1, content |-> 0]),
       clock |-> 1],
      [dir |-> EarlierRun, clock |-> 4] }

InitUpload ==
    /\ InitRequests /\ NoStores
    /\ ledger = NoFile
    /\ \E start \in StartDirs : dir = start.dir /\ clock = start.clock

\* A pair of uploads of the CTO base, each starting whenever its request arrives.
NextUpload ==
    \/ \E u \in Uploads : u <= 2 /\ Arrive(u)
    \/ \E u \in Uploads : UnlinkInvalid(u)
    \/ \E u \in Uploads : ListFiles(u)
    \/ \E u \in Uploads : FindReaddir(u)
    \/ \E u \in Uploads : FindStat(u)
    \/ \E u \in Uploads : RenameBackup(u)
    \/ \E u \in Uploads : CopyBackup(u)
    \/ \E u \in Uploads : UnlinkOld(u)
    \/ \E u \in Uploads : UnlinkCurrent(u)
    \/ \E u \in Uploads : StatBackups(u)
    \/ \E u \in Uploads : UnlinkBackup(u)
    \/ \E u \in Uploads : RenameTemp(u)
    \/ \E u \in Uploads : CopyTemp(u)
    \/ \E u \in Uploads : UnlinkTemp(u)
    \/ \E u \in Uploads : CleanupTemp(u)
    \/ NextDay

SpecUpload == InitUpload /\ [][NextUpload]_vars

\* Uploads processed one after another: a request arrives when no other
\* upload's background task is running.
NextUploadSeq ==
    \/ \E u \in Uploads : InFlight = {} /\ Arrive(u)
    \/ \E u \in Uploads : UnlinkInvalid(u)
    \/ \E u \in Uploads : ListFiles(u)
    \/ \E u \in Uploads : FindReaddir(u)
    \/ \E u \in Uploads : FindStat(u)
    \/ \E u \in Uploads : RenameBackup(u)
    \/ \E u \in Uploads : CopyBackup(u)
    \/ \E u \in Uploads : UnlinkOld(u)
    \/ \E u \in Uploads : UnlinkCurrent(u)
    \/ \E u \in Uploads : StatBackups(u)
    \/ \E u \in Uploads : UnlinkBackup(u)
    \/ \E u \in Uploads : RenameTemp(u)
    \/ \E u \in Uploads : CopyTemp(u)
    \/ \E u \in Uploads : UnlinkTemp(u)
    \/ \E u \in Uploads : CleanupTemp(u)
    \/ NextDay

SpecUploadSeq == InitUpload /\ [][NextUploadSeq]_vars

\* ------------------------------------------------------------- sessions spec
\* Names and secrets the requests carry: two roster names, one of them typed
\* with a trailing blank, the name a rename introduces, and a blank name.
Ana == <<"A", "n", "a">>
Bia == <<"B", "i", "a">>
Eva == <<"E", "v", "a">>
UsuarioInputs == {Ana, <<"B", "i", "a", " ">>, <<" ">>}
SenhaInputs == {<<"x">>, <<"y">>}
NovoNomeInputs == {Eva}

\* the roster the server starts with
StartRoster == File(<<[nome |-> Ana, senha |-> <<"x">>], [nome |-> Bia, senha |-> <<"y">>]>>)

InitSessions ==
    /\ InitRequests
    /\ projetistas = StartRoster /\ tabulacoes = NoFile
    /\ ledger = NoFile /\ dir = EmptyDir /\ clock = 0

NextSessions ==
    \/ \E usuario \in UsuarioInputs, senha \in SenhaInputs : Login(usuario, senha)
    \/ \E usuario \in UsuarioInputs : Logout(usuario)
    \/ \E usuario \in UsuarioInputs : Heartbeat(usuario)
    \/ ListOnline
    \/ Sweep
    \/ \E nome \in {Ana, Bia}, novoNome \in NovoNomeInputs : RenameProjetista(nome, novoNome)
    \/ \E nome \in {Ana, Bia} : DeleteProjetista(nome)
    \/ Elapse

SpecSessions == InitSessions /\ [][NextSessions]_vars

\* --------------------------------------------------------------- stores spec
\* Requests on the three file-backed datasets, each file missing or present
\* when the server starts; the ledger is listed by one request at a time.  The roster names typed include one that differs
\* from a stored name only in case and a trailing blank.
NomeInputs == {Ana, <<"a", "n", "a", " ">>, Eva}
StartTags == File(<<<<"F", "o", "r", "a">>, <<" ", "O", "k", " ">>, <<" ">>>>)

InitStores ==
    /\ InitRequests
    /\ projetistas \in {NoFile, StartRoster}
    /\ tabulacoes \in {NoFile, StartTags}
    /\ ledger \in {NoFile, File(<<[id |-> SampleCells[1][1], by |-> 0]>>)}
    /\ dir = EmptyDir /\ clock = 0

NextStores ==
    \/ GetProjetistas
    \/ \E nome \in NomeInputs, senha \in SenhaInputs : AddProjetista(nome, senha)
    \/ \E nome \in NomeInputs : DeleteProjetista(nome)
    \/ GetTabulacoes
    \/ \E p \in Procs : Alone(p) /\ ListStart(p)
    \/ \E p \in Procs : Alone(p) /\ EnsureAccess(p)
    \/ \E p \in Procs : Alone(p) /\ EnsureAfterAccess(p)
    \/ \E p \in Procs : Alone(p) /\ ReadFile(p)
    \/ \E p \in Procs : Alone(p) /\ ListDone(p)

SpecStores == InitStores /\ [][NextStores]_vars

\* ----------------------------------------------------------------- tags spec
\* Requests on the tag list of a server that starts without tabulacoes.xlsx
\* or with a sorted list stored by earlier requests.  Names typed: the last
\* and the first default tag, two new names and the second one padded.
TagInputs == {defaultTabulacoes[5], defaultTabulacoes[1],
              <<"O", "k">>, <<" ", "O", "k">>, <<"a", "b">>}
SortedTags == File(<<<<"F", "o", "r", "a">>, <<"O", "k">>>>)

InitTags ==
    /\ InitRequests
    /\ projetistas = NoFile
    /\ tabulacoes \in {NoFile, SortedTags}
    /\ ledger = NoFile /\ dir = EmptyDir /\ clock = 0

NextTags ==
    \/ GetTabulacoes
    \/ \E nome \in TagInputs : AddTabulacao(nome)
    \/ \E nome \in TagInputs : DeleteTabulacao(nome)

SpecTags == InitTags /\ [][NextTags]_vars

\* ----------------------------------------------------------- full ledger spec
\* Clients served one after the other on a ledger whose last row is a few
\* tickets below, or at, the largest seven-digit suffix.
LastSevenDigits == 9999999
InitNearFull ==
    /\ InitRequests /\ NoStores
    /\ \E n \in (LastSevenDigits - 3)..LastSevenDigits :
          ledger = File(<<[id |-> StrCell(FormatVIALA(n)), by |-> 0]>>)
    /\ dir = EmptyDir /\ clock = 0

SpecNearFull == InitNearFull /\ [][NextSeq]_vars

\* ------------------------------------------------------------- reuse spec
\* The session requests with renames that may take a name the roster gave up:
\* the new name typed is Eva or Ana.
ReusedNomeInputs == {Eva, Ana}

NextReuse ==
    \/ \E usuario \in {Ana, Bia}, senha \in SenhaInputs : Login(usuario, senha)
    \/ \E usuario \in {Ana, Bia} : Logout(usuario)
    \/ \E usuario \in {Ana, Bia} : Heartbeat(usuario)
    \/ ListOnline
    \/ Sweep
    \/ \E nome \in {Ana, Bia}, novoNome \in ReusedNomeInputs :
          RenameProjetista(nome, novoNome)
    \/ \E nome \in {Ana, Bia} : DeleteProjetista(nome)
    \/ Elapse

SpecReuse == InitSessions /\ [][NextReuse]_vars

\* --------------------------------------------------------------- roster spec
\* Requests on the roster and logins, on a server that starts without
\* projetistas.xlsx or with the start roster.  The new passwords typed: one
\* long enough, padded, and one too short.
NovaSenhaInputs == {<<"p", "a", "s", "s", " ">>, <<"a", "b">>}

InitRoster ==
    /\ InitRequests
    /\ projetistas \in {NoFile, StartRoster} /\ tabulacoes = NoFile
    /\ ledger = NoFile /\ dir = EmptyDir /\ clock = 0

NextRoster ==
    \/ GetProjetistas
    \/ \E nome \in NomeInputs, senha \in SenhaInputs : AddProjetista(nome, senha)
    \/ \E nome \in NomeInputs : DeleteProjetista(nome)
    \/ \E nome \in NomeInputs, senha \in NovaSenhaInputs : UpdatePassword(nome, senha)
    \/ \E usuario \in NomeInputs, senha \in SenhaInputs \cup NovaSenhaInputs :
          Login(usuario, senha)

SpecRoster == InitRoster /\ [][NextRoster]_vars

\* ------------------------------------------------------------ overlap spec
\* Adds to the roster and to the tag list whose saves overlap, on a server
\* whose Supabase calls fail.
Ivo == <<"I", "v", "o">>
NewNomeInputs == {Eva, Ivo}
NewTagInputs == {<<"O", "k">>, <<"a", "b">>}

InitOverlap ==
    /\ InitRequests
    /\ projetistas = StartRoster /\ tabulacoes \in {NoFile, StartTags}
    /\ ledger = NoFile /\ dir = EmptyDir /\ clock = 0

NextOverlap ==
    \/ \E nome \in NewNomeInputs, senha \in SenhaInputs :
          AddProjetistaFallback(nome, senha)
    \/ \E nome \in NewTagInputs : AddTabulacaoFallback(nome)
    \/ SaveFallback

SpecOverlap == InitOverlap /\ [][NextOverlap]_vars

\* --------------------------------------------------------------- race spec
\* Adds, renames, password updates and deletes on the roster whose saves
\* overlap, on a server whose Supabase calls fail.  The start roster has no
\* two names equal without regard to case.
LowerAna == <<"a", "n", "a">>

InitRace ==
    /\ InitRequests
    /\ projetistas = StartRoster /\ tabulacoes = NoFile
    /\ ledger = NoFile /\ dir = EmptyDir /\ clock = 0

NextRace ==
    \/ \E nome \in {Eva, LowerAna} : AddProjetistaFallback(nome, <<"x">>)
    \/ DeleteProjetistaFallback(Bia)
    \/ RenameProjetistaFallback(Ana, Eva)
    \/ UpdatePasswordFallback(Ana, <<"p", "a", "s", "s">>)
    \/ SaveFallback

SpecRace == InitRace /\ [][NextRace]_vars

\* ------------------------------------------------------------ parallel spec
\* Uploads to the handler of src/backend/server.js, one after another, on the
\* same day or on the next.
NextParallel ==
    \/ \E u \in Uploads, valid \in BOOLEAN : UploadBase(u, valid)
    \/ \E u \in Uploads : UnlinkBackupBase(u)
    \/ \E u \in Uploads : RenameToBackup(u)
    \/ \E u \in Uploads : CopyToBackup(u)
    \/ \E u \in Uploads : WriteNewBase(u)
    \/ \E u \in Uploads : StatNewBase(u)
    \/ NextDay

SpecParallel == InitUpload /\ [][NextParallel]_vars

\* ------------------------------------------------------------------ helpers
InQueue(q, p) == \E i \in 1..Len(q) : q[i] = p

\* the requests of q, in order, that satisfy Test
RECURSIVE SelectProcs(_, _)
SelectProcs(q, S) ==
    IF q = <<>> THEN <<>>
    ELSE IF Head(q) \in S THEN <<Head(q)>> \o SelectProcs(Tail(q), S)
    ELSE SelectProcs(Tail(q), S)

\* requests between the start and the completion of their operation on key k
InOperation(k) == {p \in Procs : pc[p] = "op" /\ lockName[p] = k}

\* requests woken from `await fileLocks[k]` that have not yet re-tested the loop
Woken(k) == SelectProcs(mq, {p \in Procs : pc[p] = "awaitLock" /\ lockName[p] = k})

\* ------------------------------------------------------------------- claims
\* C1: for each key, at most one operation run through withLock is between its
\* start and its completion at any time.
C1_MutualExclusion == \A k \in Keys : Cardinality(InOperation(k)) <= 1

\* C1 witness: an operation is running on a key while another caller of the
\* same key is suspended waiting for it.
C1_Witness ==
    \E p, q \in Procs :
        /\ p # q
        /\ pc[p] = "op"
        /\ pc[q] = "awaitLock"
        /\ lockName[q] = lockName[p]
        /\ InQueue(waiters[lockName[p]], q)

\* C4 (as claimed): no caller is still suspended waiting for a key once its
\* wait has exceeded the 5-second ceiling.
C4_NoWaitBeyondCeiling ==
    \A k \in Keys : \A i \in 1..Len(waiters[k]) :
        ~TimedOut(startTime[waiters[k][i]], now)

\* C5: when the operation throws, the caller gets the error and the key is
\* released with every waiter woken; a held key always has a live holder whose
\* release is still to come, and a caller that finds the key free takes it.
C5_ThrowStep ==
    \A p \in Procs :
        (pc[p] = "settled" /\ opOutcome[p] = "throw" /\ pc'[p] = "done")
            => /\ result'[p] = "error"
               /\ fileLocks'[lockName[p]] = NoLock
               /\ waiters'[lockName[p]] = <<>>
               /\ \A w \in Procs : InQueue(waiters[lockName[p]], w) => InQueue(mq', w)

C5_HolderLive ==
    \A k \in Keys :
        LockHeld(fileLocks, k) =>
            /\ pc[fileLocks[k]] \in {"op", "settled"}
            /\ lockName[fileLocks[k]] = k
            /\ pc[fileLocks[k]] = "settled" => InQueue(mq, fileLocks[k])

C5_FreeKeyIsTaken ==
    \A p \in Procs, k \in Keys :
        (pc[p] = "idle" /\ pc'[p] # "idle" /\ lockName'[p] = k /\ ~LockHeld(fileLocks, k))
            => pc'[p] = "op" /\ fileLocks'[k] = p

C5_ReleasedOnThrow ==
    [](C5_HolderLive) /\ [][C5_ThrowStep /\ C5_FreeKeyIsTaken]_vars

\* C5 witness: an operation threw while a caller was waiting, and that caller
\* now runs its operation on the same key.
C5_Witness ==
    \E p, q \in Procs :
        /\ p < q
        /\ result[p] = "error"
        /\ pc[q] = "op"
        /\ lockName[q] = lockName[p]
        /\ startTime[q] < now

\* C6: no lost wakeup, and one waiter proceeds per release.  A caller suspended
\* on a key is either registered on the pending promise of a live holder or is
\* already queued to re-test the loop; when a key is free and woken waiters are
\* queued, the key goes next to the first of them; a woken waiter that finds the
\* key taken goes back to waiting or times out.
C6_NoLostWakeup ==
    \A p \in Procs :
        pc[p] = "awaitLock" =>
            \/ InQueue(mq, p) /\ ~InQueue(waiters[lockName[p]], p)
            \/ /\ ~InQueue(mq, p)
               /\ InQueue(waiters[lockName[p]], p)
               /\ LockHeld(fileLocks, lockName[p])
               /\ pc[fileLocks[lockName[p]]] \in {"op", "settled"}

C6_WakeStep ==
    \A k \in Keys :
        /\ (~LockHeld(fileLocks, k) /\ Woken(k) # <<>> /\ LockHeld(fileLocks', k))
               => fileLocks'[k] = Head(Woken(k))
        /\ \A p \in Procs :
               (LockHeld(fileLocks, k) /\ Woken(k) # <<>> /\ Head(mq) = p
                    /\ lockName[p] = k /\ pc[p] = "awaitLock" /\ ~InQueue(mq', p))
                   => \/ pc'[p] = "awaitLock" /\ InQueue(waiters'[k], p)
                      \/ pc'[p] = "done" /\ result'[p] = "timeout"

C6_OneWaiterProceeds ==
    [](C6_NoLostWakeup) /\ [][C6_WakeStep]_vars

\* C6 witness: a release woke two waiters; the first has taken the key and the
\* second is queued to re-test the loop, about to find the key taken.
C6_Witness ==
    \E p, q \in Procs :
        /\ p # q
        /\ pc[p] = "op"
        /\ fileLocks[lockName[p]] = p
        /\ startTime[p] < now
        /\ mq # <<>>
        /\ Head(mq) = q
        /\ pc[q] = "awaitLock"
        /\ lockName[q] = lockName[p]

\* C2 (as claimed): no two records committed to the ticket ledger carry the
\* same ticket ID.
C2_NoDuplicateIds ==
    \A i, j \in 1..Len(committed) : i # j => committed[i].id # committed[j].id

\* C7 (as claimed): every record committed to the ticket ledger is still in the
\* ledger file, unchanged.
C7_CommittedKept ==
    \A i \in 1..Len(committed) :
        /\ ledger.exists
        /\ \E j \in 1..Len(ledger.rows) : ledger.rows[j] = committed[i]

\* the numeric suffix of a ticket ID as the scan reads it (-1: none)
Suffix(cell) ==
    IF cell.t = "s" /\ MatchVIALA(cell.v) # <<>> THEN ParseInt(MatchVIALA(cell.v)) ELSE -1

\* C8: with clients served one after the other, an ID just returned has a
\* numeric suffix greater than that of every record committed before it and of
\* every row the ledger held at the start, and the committed suffixes increase.
C8_Monotonic ==
    /\ \A p \in Procs :
           pc[p] = "gotId" =>
               /\ \A i \in 1..Len(committed) :
                      Suffix(StrCell(viAla[p])) > Suffix(committed[i].id)
               /\ \A j \in 1..Len(ledger.rows) :
                      Suffix(StrCell(viAla[p])) > Suffix(ledger.rows[j].id)
    /\ \A i, j \in 1..Len(committed) :
           i < j => Suffix(committed[i].id) < Suffix(committed[j].id)

\* C8 witness: two records are committed and a third client holds a fresh ID.
C8_Witness ==
    /\ Len(committed) >= 2
    /\ \E p \in Procs : pc[p] = "gotId" /\ Suffix(StrCell(viAla[p])) >= 3

\* what the scan has to read from a row: the hand-derived number for a row the
\* ledger started with, the seven-or-more digits after 'VI ALA-' for a row a
\* client saved
ExpectedSuffix(row) ==
    IF row.by = 0
    THEN SampleCells[CHOOSE i \in 1..Len(SampleCells) : SampleCells[i][1] = row.id][2]
    ELSE ParseInt(SubSeq(row.id.v, 8, Len(row.id.v)))

ExpectedMax(rows) ==
    LET nums == {ExpectedSuffix(rows[i]) : i \in 1..Len(rows)} \cup {0}
    IN  CHOOSE m \in nums : \A n \in nums : n <= m

\* C9: the ID returned is 'VI ALA-' followed by m+1 in seven zero-padded digits,
\* m the largest suffix among the rows with a parseable ID (0 if none); rows with
\* a malformed or non-string ID are skipped.
C9_NextIsMaxPlusOne ==
    \A p \in Procs :
        pc[p] = "gotId" =>
            /\ Len(viAla[p]) >= 14
            /\ SubSeq(viAla[p], 1, 7) = <<"V", "I", " ", "A", "L", "A", "-">>
            /\ \A i \in 8..Len(viAla[p]) : viAla[p][i] \in DigitSet
            /\ Len(viAla[p]) > 14 => viAla[p][8] # "0"
            /\ ParseInt(SubSeq(viAla[p], 8, Len(viAla[p]))) = ExpectedMax(ledger.rows) + 1

\* C9 witness: an ID was returned for a ledger holding a row that is skipped
\* and, after it, rows with parseable IDs, the largest not last.
C9_Witness ==
    \E p \in Procs :
        /\ pc[p] = "gotId"
        /\ Len(ledger.rows) >= 3
        /\ ExpectedSuffix(ledger.rows[1]) = -1
        /\ ExpectedSuffix(ledger.rows[2]) > ExpectedSuffix(ledger.rows[3])
        /\ ExpectedSuffix(ledger.rows[3]) > 0


\* upload u has listed the directory and has not yet written its new base: it
\* is inside enumerate, demote, delete, prune, write
InRotation(u) ==
    upload[u].pc \in {"findReaddir", "findStat", "renameBackup", "copyBackup", "unlinkOld",
                      "unlinkCurrent", "statBackups", "unlinkBackup", "renameTemp",
                      "copyTemp", "unlinkTemp"}

\* C3: the rotation sections of two uploads processed at the same time never
\* interleave: while one upload is between its listing of the directory and the
\* write of its new base, no other upload is.
C3_RotationsNeverInterleave ==
    \A u, v \in Uploads : u # v => ~(InRotation(u) /\ InRotation(v))

\* the files of the directory that satisfy the current-name predicate
CurrentNamed(d) == {f \in DOMAIN d : IsBaseAtual(f)}

\* upload u is the last one that arrived, and it completed by writing its file
LastSucceeded(u) ==
    /\ upload[u].pc = "done"
    /\ upload[u].outcome = "ok"
    /\ \A v \in Uploads : v > u => upload[v].pc = "idle"

BackupNamed(d) == {f \in DOMAIN d : IsBackup(f)}

\* upload u is the last one that arrived and it succeeded: it wrote its file, the
\* current base it started with (if any) reached its backup name by the rename
\* or by the fallback copy, and no unlink of an existing file has failed
Successful(u) ==
    /\ LastSucceeded(u)
    /\ upload[u].hadCurrent => upload[u].backedUp
    /\ ~unlinkFailed

\* C11: at the end of every successful replace that started with a current
\* base present, findBackupBaseFile (the newest backup by modification time)
\* returns a file holding the content that was current right before the replace.
C11_NewestBackupIsPrior ==
    \A u \in Uploads :
        (Successful(u) /\ upload[u].hadCurrent) =>
            /\ findBackupBaseFile(dir) # NoPath
            /\ dir[findBackupBaseFile(dir)].content = upload[u].prior

\* C12: after any number of successful replaces at most three backup_*.xlsx
\* files remain (three of them after the fifth replace on a directory that
\* started empty).
C12_AtMostThreeBackups ==
    \A u \in Uploads : Successful(u) => Cardinality(BackupNamed(dir)) <= BackupsKept

\* C13: a replace that started with a current base present and failed leaves a
\* current base that getCurrentBaseFilePath finds.
C13_FailedReplaceKeepsCurrent ==
    \A u \in Uploads :
        (upload[u].pc = "done" /\ upload[u].outcome = "failed" /\ upload[u].hadCurrent)
            => getCurrentBaseFilePath(dir) # NoPath



\* C14: in every state of the data directory, the transient ones inside
\* concurrent replaces included, findCurrentBaseFile, getCurrentBaseFilePath and
\* getCurrentBaseFilePathSync do not return a backup-named file, and neither
\* does the findCurrentBaseFile call an upload makes across its awaits.
C14_NeverReturnsBackup ==
    /\ ~IsBackup(findCurrentBaseFile(dir))
    /\ ~IsBackup(getCurrentBaseFilePath(dir))
    /\ ~IsBackup(getCurrentBaseFilePathSync(dir))
    /\ \A u \in Uploads : ~IsBackup(upload[u].currentBasePath)

\* a backup is the newest file of the directory while a current base exists:
\* only the name filter keeps the selection from returning the backup
C14_Witness ==
    /\ findCurrentBaseFile(dir) # NoPath
    /\ \E b \in BackupNamed(dir) : dir[b].mtime > dir[findCurrentBaseFile(dir)].mtime

\* C20: an upload whose header row has no column matching latitude or no
\* column matching longitude is never committed: no step of its processing
\* changes the data directory, so the current base file and the set of backup
\* files are the same after it as before, and it ends rejected.
C20_InvalidUploadNeverCommitted ==
    [][\A u \in Uploads :
          (~upload'[u].latLong /\ upload'[u] # upload[u]) =>
              /\ dir' = dir
              /\ upload'[u].pc = "done" => upload'[u].outcome = "rejected"]_vars

\* an upload was rejected while the directory holds a current base and backups
C20_Witness ==
    \E u \in Uploads :
        /\ upload[u].pc = "done" /\ upload[u].outcome = "rejected"
        /\ findCurrentBaseFile(dir) # NoPath
        /\ BackupNamed(dir) # {}

\* C15: a session whose lastActivity is older than the five-minute window is
\* absent from the online list the listing route returns, and after that
\* listing call, or after the periodic sweep, its identity is in logoutHistory
\* with logoutTime equal to the session's lastActivity.
C15_ExpiredSessionLeavesWithLastActivity ==
    [][\A u \in DOMAIN activeSessions :
          (/\ now - activeSessions[u].lastActivity > SESSION_TIMEOUT
           /\ served'.route \in {"online", "sweep"}) =>
              /\ served'.route = "online" => u \notin served'.body.onlineUsers
              /\ u \notin DOMAIN activeSessions'
              /\ u \in DOMAIN logoutHistory'
              /\ logoutHistory'[u].logoutTime = activeSessions[u].lastActivity]_vars

\* the listing has just removed a session idle for more than the window, while
\* another session is still online
C15_Witness ==
    /\ served.route = "online"
    /\ served.body.onlineUsers # {}
    /\ \E u \in served.expired :
          now - logoutHistory[u].logoutTime > SESSION_TIMEOUT

\* the step is a logout request for identity u, which has an active session
LogoutOfActive(u) ==
    /\ served'.route = "logout"
    /\ served'.usuario = u
    /\ u \in DOMAIN activeSessions

LoginOf(u) ==
    /\ served'.route = "login"
    /\ served'.usuario = u
    /\ served'.body.success

\* the step is a successful rename to u of an identity whose session is active
RenameOfActiveTo(u) ==
    /\ served'.route = "PUT name"
    /\ served'.body.success
    /\ served'.body.novoNome = u
    /\ served'.usuario \in DOMAIN activeSessions

\* a heartbeat for an identity without an active session changes no session
\* and no logout entry
HeartbeatOnAbsentIsNoOp ==
    (served'.route = "heartbeat" /\ served'.usuario \notin DOMAIN activeSessions)
        => UNCHANGED <<activeSessions, logoutHistory>>

\* C17 as stated: the only operation that puts an identity into the active set
\* is a successful login of that identity; a heartbeat on an absent or
\* logged-out identity is a no-op, and listing, sweep, logout, roster rename
\* and roster delete make no identity active that was not active before.
C17_OnlyLoginActivates ==
    [][/\ \A u \in DOMAIN activeSessions' \ DOMAIN activeSessions : LoginOf(u)
       /\ HeartbeatOnAbsentIsNoOp]_vars

\* C17 amended: an identity enters the active set only by a successful login
\* of that identity or by a roster rename to it of an identity whose session
\* is active (the session moves to the new name); a heartbeat on an absent or
\* logged-out identity is a no-op, and listing, sweep, logout and roster
\* delete make no identity active that was not active before.
C17_OnlyLoginOrRenameActivates ==
    [][/\ \A u \in DOMAIN activeSessions' \ DOMAIN activeSessions :
              LoginOf(u) \/ RenameOfActiveTo(u)
       /\ HeartbeatOnAbsentIsNoOp]_vars

\* a rename has just moved an active session to the new name, and a session
\* opened by a login is active beside it
C17_Witness ==
    /\ served.route = "PUT name"
    /\ served.body.success
    /\ served.body.novoNome \in DOMAIN activeSessions
    /\ served.usuario \notin DOMAIN activeSessions
    /\ DOMAIN activeSessions # {served.body.novoNome}

\* some row of the stored roster bears this name, case ignored
InRoster(file, nome) ==
    \E i \in 1..Len(file.rows) : ToLowerCase(file.rows[i].nome) = ToLowerCase(nome)

\* C18: adding a roster entry whose name equals an existing roster name
\* case-insensitively is rejected with an 'already exists' result, and the
\* stored roster, names and secrets, is the same after the request as before.
C18_DuplicateAddRejected ==
    [][(/\ served' # served
        /\ served'.route = "POST projetistas"
        /\ InRoster(projetistas, served'.usuario)) =>
            /\ ~served'.body.success
            /\ served'.body.error = "Projetista ja existe"
            /\ projetistas' = projetistas]_vars

\* an add was rejected for a name that is stored in another case
C18_Witness ==
    /\ served.route = "POST projetistas"
    /\ ~served.body.success
    /\ served.body.error = "Projetista ja existe"
    /\ InRoster(projetistas, served.usuario)
    /\ \A i \in 1..Len(projetistas.rows) : projetistas.rows[i].nome # served.usuario

\* the step is the last read of a listing of the ledger by a request that
\* found the ledger file missing
LedgerReadOfMissing(p) ==
    /\ kind[p] = "list"
    /\ ~sawExists[p]
    /\ at[p] # "readDone" /\ at'[p] = "readDone"

\* the step serves a GET of the roster while its file is missing
RosterReadOfMissing ==
    served' # served /\ served'.route = "GET projetistas" /\ ~projetistas.exists

\* the step serves a GET of the tag list while its file is missing
TagReadOfMissing ==
    served' # served /\ served'.route = "GET tabulacoes" /\ ~tabulacoes.exists

\* the request was answered without an error
Answered(res) == res.status = 200 /\ res.body.success

C21_RejectedUploadAnswersFailure ==
    \A u \in Uploads :
        upload[u].outcome = "rejected" =>
            upload[u].res.status # 0 /\ ~upload[u].res.success

\* the step is an add or a delete that wrote the tag list
TagMutation ==
    /\ served' # served
    /\ served'.route \in {"POST tabulacoes", "DELETE tabulacoes"}
    /\ served'.status = 200
    /\ served'.body.message \in {"Tabulacao adicionada com sucesso",
                                 "Tabulacao deletada com sucesso"}

\* no name twice, each name before the next in code-unit order
UniqueAscending(nomes) ==
    \A i \in 1..(Len(nomes) - 1) : CompareCodeUnits(nomes[i], nomes[i + 1]) < 0

\* C22: after every tag-list mutation (add or delete, from any stored list,
\* the default list created on first read included), the stored tag list has
\* no repeated name and is in ascending alphabetical order.
C22_TagsUniqueSortedAfterMutation ==
    [][TagMutation => UniqueAscending(tabulacoes'.rows)]_vars

\* 'VI ALA-' followed by exactly seven decimal digits
SevenDigitId(id) ==
    /\ Len(id) = Len(VIALAPrefix) + 7
    /\ SubSeq(id, 1, Len(VIALAPrefix)) = VIALAPrefix
    /\ \A i \in (Len(VIALAPrefix) + 1)..Len(id) : id[i] \in DigitSet

\* C23: every ticket ID returned by getNextVIALA is 'VI ALA-' followed by
\* exactly seven decimal digits, for every reachable ledger content, a ledger
\* whose highest suffix is 9999999 included.
C23_IdHasSevenDigits ==
    \A p \in Procs : viAla[p] # NoId => SevenDigitId(viAla[p])

\* the passwords the requests submit, as the handlers trim them
PlainSecrets == {Trim(senha) : senha \in SenhaInputs \cup NovaSenhaInputs}

\* the step is an add-projetista or an update-password that stored a secret
SecretStored ==
    /\ served' # served
    /\ served'.route \in {"POST projetistas", "PUT password"}
    /\ served'.status = 200
    /\ served'.body.success

\* C24: passwords are stored hashed: the secret that add-projetista or
\* update-password persists for a roster entry is never the submitted
\* plaintext itself.
C24_SecretsStoredHashed ==
    [][SecretStored =>
          \A i \in 1..Len(projetistas'.rows) :
              InRoster(File(<<projetistas'.rows[i]>>), served'.usuario) =>
                  projetistas'.rows[i].senha \notin PlainSecrets]_vars

\* a step of upload u's replace removes the file that was current when the
\* replace started
RemovesOriginal(u) ==
    /\ upload[u].hadCurrent
    /\ upload[u].pc \in {"renameBackup", "copyBackup", "unlinkOld", "unlinkCurrent"}
    /\ Exists(dir, upload[u].currentBasePath)
    /\ ~Exists(dir', upload[u].currentBasePath)

\* C26: during a replace the prior current snapshot is removed from disk only
\* when its content exists under a backup name: if the rename and the fallback
\* copy both failed, the original is kept.
C26_OriginalRemovedOnlyIfBackedUp ==
    [][\A u \in Uploads :
          RemovesOriginal(u) =>
              \E f \in BackupNamed(dir') : dir'[f].content = upload[u].prior]_vars

\* C27: no identity is at once a key of activeSessions and a key of
\* logoutHistory, whatever logins, logouts, heartbeats, listings, sweeps,
\* renames and deletes were served.
C27_ActiveAndLoggedOutDisjoint ==
    DOMAIN activeSessions \cap DOMAIN logoutHistory = {}

\* the step is a heartbeat for an identity whose session is already older
\* than the window and has not yet been removed by a sweep or a listing
LateHeartbeat ==
    /\ served'.route = "heartbeat"
    /\ served'.usuario \in DOMAIN activeSessions
    /\ Inactive(activeSessions[served'.usuario], now)

\* C28: once a session's last activity is older than the window, a heartbeat
\* sent before the next sweep or listing does not revive it: after the
\* heartbeat the identity still has no session that counts as online.
C28_LateHeartbeatDoesNotRevive ==
    [][LateHeartbeat =>
          \/ served'.usuario \notin DOMAIN activeSessions'
          \/ ~StillOnline(activeSessions'[served'.usuario], now')]_vars

\* this step writes the suspended save `save` and answers its request
Written(save) == inflight' = inflight (-) SetToBag({save})

\* every name of `before` is a name of `after`
NoneDropped(before, after) ==
    \A i \in 1..Len(before) : \E j \in 1..Len(after) : after[j] = before[i]

\* C25: on the file backend no add is lost: when adds of new names overlap in
\* their saves and each reports success (no delete or rename is ever served),
\* the write of each keeps every name stored before it, in the roster and in
\* the tag list alike, so that all the names added end up stored.
C25_NoAddLost ==
    [][\A save \in BagToSet(inflight) :
          /\ (Written(save) /\ save.response.route = "POST projetistas") =>
                 NoneDropped(Nomes(readProjetistas(projetistas)),
                             Nomes(readProjetistas(projetistas')))
          /\ (Written(save) /\ save.response.route = "POST tabulacoes") =>
                 NoneDropped(readTabulacoes(tabulacoes), readTabulacoes(tabulacoes'))]_vars

\* no two names of these rows are equal without regard to case
NoTwoSameNome(rows) ==
    \A i, j \in 1..Len(rows) :
        i # j => ToLowerCase(rows[i].nome) # ToLowerCase(rows[j].nome)

\* C29: starting from a roster without two names equal case-insensitively,
\* every roster file that an add, a rename, a password update or a delete
\* writes, however their saves interleave, has no two such names.
C29_WrittenRosterHasUniqueNames ==
    [][\A save \in BagToSet(inflight) :
          (Written(save) /\ save.key = "projetistas") => NoTwoSameNome(projetistas'.rows)]_vars

\* an add has just been written and answered while another request is still
\* suspended in the save of a roster it read before: the list it is about to
\* write lacks the name just added
C29_Witness ==
    /\ served.route = "POST projetistas" /\ served.status = 200 /\ served.body.success
    /\ \E save \in BagToSet(inflight) :
          /\ save.key = "projetistas"
          /\ \A i \in 1..Len(save.rows) : save.rows[i].nome # served.usuario
    /\ \E i \in 1..Len(projetistas.rows) : projetistas.rows[i].nome = served.usuario

\* upload u is the last one served, it was answered success: true, and no
\* file-system call of any upload failed for a reason outside the handler
SucceededCleanly(u) ==
    /\ LastSucceeded(u)
    /\ upload[u].res = UploadSucceeded
    /\ faultsLeft = MaxFaults

\* C30: in the handler of src/backend/server.js, whatever the order in which
\* the operations started together complete, a successful upload ends with
\* exactly one base_atual_*.xlsx, holding the payload, and with a backup
\* holding the content that was current before it, a second upload on the
\* same day included.
C30_ParallelReplaceKeepsBoth ==
    \A u \in Uploads :
        SucceededCleanly(u) =>
            /\ Cardinality(CurrentNamed(dir)) = 1
            /\ \A f \in CurrentNamed(dir) : dir[f].content = u
            /\ upload[u].hadCurrent =>
                   \E f \in BackupNamed(dir) : dir[f].content = upload[u].prior

============================================================================
